---- MODULE Spec2Model ----
(***************************************************************************)
(* Control-node merging and parenting engine of the skin rigs               *)
(* (rigs/skin/skin_nodes.py, rigs/skin/skin_parents.py, rigs/skin/glue.py). *)
(*                                                                           *)
(* SpecMerge  : the merge predicates of ControlBoneNode and of              *)
(*              ControlQueryNode as pure methods.                           *)
(* SpecNames  : merge_done / find_mirror_siblings over one merge cluster.    *)
(* SpecWidget : generate_widgets of the master of one merge cluster.         *)
(* SpecIntern : build_parent_for_node calls on one master, prepare_bones.    *)
(* SpecBuild  : the staged build of one cluster: merge_done, initialize,     *)
(*              prepare_bones, generate_bones, parent_bones, rig_bones,      *)
(*              generate_widgets.                                            *)
(* SpecAccum  : two add_copy_local_location calls in both orders.            *)
(* SpecDriver : compile_driver on lists of driver items.                     *)
(* SpecOffset : a chain of Offset generators through prepare_bones,          *)
(*              generate_bones and rig_bones.                                *)
(***************************************************************************)
EXTENDS Integers, Sequences, FiniteSets, TLC

VARIABLES
    rigs,       \* rig id -> [rigify_parent, chain_priority]; 0 is None
    call,       \* the last call of a merge predicate and its result
    node,       \* control node id -> the attributes ControlBoneNode.__init__ sets
    master,     \* the master node of the cluster
    stage,      \* the generator stage being run
    ran,        \* the components whose method of this stage has returned
    aborted,    \* an exception has ended the generation
    mirror,     \* node id -> what find_mirror_siblings assigned
    query,      \* query node id (negative) -> PositionQueryNode.__init__ attributes
    cache,      \* master.parent_subrig_cache: the interned parent generators
    names,      \* master.parent_subrig_names, by position in the cache
    used_parents,       \* master.used_parents, in insertion order
    reparent_requests,  \* master.reparent_requests
    node_parent,        \* component id -> its node_parent (0 is None)
    rotation,   \* the nodes whose rotation is resolved
    mstate,     \* what initialize assigns on the master
    bones,      \* what generate_bones assigns on the master
    widget,     \* the widget of the control bone
    built_log   \* history: the structure of the parent built for each call

mvars == <<rigs, call>>
cvars == <<node, master, stage, ran, aborted, mirror>>
bvars == <<query, cache, names, used_parents, reparent_requests, node_parent,
           rotation, mstate, bones, widget, built_log>>
vars == <<mvars, cvars, bvars>>

----------------------------------------------------------------------------
(* Bounds *)

NumRigs == 3
MaxPrio == 1
NumNodes == 3
MaxBuilds == 2

----------------------------------------------------------------------------
(* Enumerations *)

ControlNodeLayer_FREE == 0
ControlNodeLayer_MIDDLE_PIVOT == 10
ControlNodeLayer_TWEAK == 20

Layers == {ControlNodeLayer_FREE, ControlNodeLayer_MIDDLE_PIVOT, ControlNodeLayer_TWEAK}

\* rigify.utils.naming: Side LEFT/MIDDLE/RIGHT, SideZ BOTTOM/MIDDLE/TOP
Sides == {-1, 0, 1}
SidesZ == {-2, 0, 2}

RigIds == 1..NumRigs
Prios == 0..MaxPrio

Abs(x) == IF x < 0 THEN -x ELSE x

Reverse(s) == [i \in 1..Len(s) |-> s[Len(s) + 1 - i]]

----------------------------------------------------------------------------
(* Merge predicates of ControlBoneNode *)

RECURSIVE _get_parent_rigs(_)
_get_parent_rigs(rig) ==
    IF rig = 0 THEN <<>>
    ELSE <<rig>> \o _get_parent_rigs(rigs[rig].rigify_parent)

chain_priority(n) == rigs[n.rig].chain_priority

\* mutant: the priority test of the second disjunct lets equal priorities through
can_merge_into_downlayer(self, other, super_can_merge) ==
    LET dprio == chain_priority(self) - chain_priority(other) IN
    /\ dprio <= 0
    /\ (self.layer <= other.layer \/ dprio <= 0)
    /\ super_can_merge

\* mutant: the test dprio <= 0 is lost
can_merge_into_anyprio(self, other, super_can_merge) ==
    LET dprio == chain_priority(self) - chain_priority(other) IN
    /\ (self.layer <= other.layer \/ dprio < 0)
    /\ super_can_merge

\* super_can_merge is the result of MainMergeNode.can_merge_into (rigify)
can_merge_into(self, other, super_can_merge) ==
    LET dprio == chain_priority(self) - chain_priority(other) IN
    /\ dprio <= 0
    /\ (self.layer <= other.layer \/ dprio < 0)
    /\ super_can_merge

\* mutant: the bias goes to merges that skip a layer
get_merge_priority_skip(self, other) ==
    IF Abs(self.layer - other.layer) <= 10
    THEN -Abs(self.layer - other.layer)
    ELSE -Abs(self.layer - other.layer) - 100

get_merge_priority(self, other) ==
    IF self.layer <= other.layer
    THEN -Abs(self.layer - other.layer)
    ELSE -Abs(self.layer - other.layer) - 100

my_parents(n) == Reverse(_get_parent_rigs(rigs[n.rig].rigify_parent))

is_better_cluster(self, other) ==
    LET mine == my_parents(self)
        other_parents == my_parents(other)
        side_x_my == Abs(self.name_split.side)
        side_z_my == Abs(self.name_split.side_z)
        side_x_other == Abs(other.name_split.side)
        side_z_other == Abs(other.name_split.side_z)
    IN
    IF Len(mine) > Len(other_parents)
       /\ SubSeq(mine, 1, Len(other_parents)) = other_parents
    THEN TRUE
    ELSE IF Len(other_parents) > Len(mine)
            /\ SubSeq(other_parents, 1, Len(other_parents)) = mine
    THEN FALSE
    ELSE IF \/ (side_x_my < side_x_other /\ side_z_my <= side_z_other)
            \/ (side_x_my <= side_x_other /\ side_z_my < side_z_other)
    THEN FALSE
    ELSE IF \/ (side_x_my > side_x_other /\ side_z_my >= side_z_other)
            \/ (side_x_my >= side_x_other /\ side_z_my > side_z_other)
    THEN TRUE
    ELSE FALSE

----------------------------------------------------------------------------
(* Merge predicates of ControlQueryNode *)

query_can_merge_into(self, other) == TRUE

\* mutant: the flag find_highest_layer is ignored
query_get_merge_priority_highest(self, other) == other.layer

query_get_merge_priority(self, other) ==
    IF self.find_highest_layer THEN other.layer ELSE -other.layer

----------------------------------------------------------------------------
(* SpecMerge: the merge predicates applied to pairs of nodes *)

NameSplits == [base : {"a"}, side : Sides, side_z : SidesZ]
MiddleName == [base |-> "a", side |-> 0, side_z |-> 0]

\* ControlBoneNode.__init__ arguments the merge predicates read
\* (id is the identity of the node object)
MergeIds == {1, 2}
MergeArgs == [id : MergeIds, rig : RigIds, layer : Layers, name_split : {MiddleName}]
PriorityArgs == [id : MergeIds, rig : {1}, layer : Layers, name_split : {MiddleName}]
ClusterArgs ==
    [id : MergeIds, rig : RigIds, layer : {ControlNodeLayer_FREE}, name_split : NameSplits]

\* rigs without parents and of any chain priority, and trees of rigs of one
\* chain priority
RigTrees ==
    {r \in [RigIds -> [rigify_parent : 0..NumRigs, chain_priority : Prios]] :
        /\ \A i \in RigIds : r[i].rigify_parent < i
        /\ \/ \A i \in RigIds : r[i].rigify_parent = 0
           \/ \A i \in RigIds : r[i].chain_priority = 0}

NoCall == [op |-> "none"]

\* the master before its initialize has run
NoMaster ==
    [initialized |-> FALSE, size |-> <<0, 1>>, node_parent_list |-> <<>>,
     use_mix_parent |-> FALSE, has_weak_parent |-> FALSE, node_parent_base |-> 0]

\* the master before its generate_bones has run
NoBones ==
    [generated |-> FALSE, mix_parent_bone |-> FALSE, reparent_bones |-> <<>>,
     use_weak_parent |-> FALSE, weak_parent_bone |-> FALSE, made |-> <<>>,
     lengths |-> <<>>, parented |-> FALSE, parents |-> <<>>,
     rigged |-> FALSE, constraints |-> <<>>]

IdleBuild ==
    /\ query = <<>>
    /\ cache = <<>>
    /\ names = <<>>
    /\ used_parents = <<>>
    /\ reparent_requests = <<>>
    /\ node_parent = <<>>
    /\ rotation = {}
    /\ mstate = NoMaster
    /\ bones = NoBones
    /\ widget = "none"
    /\ built_log = <<>>

IdleCluster ==
    /\ node = <<>>
    /\ master = 0
    /\ stage = "none"
    /\ ran = {}
    /\ aborted = FALSE
    /\ mirror = <<>>
    /\ IdleBuild

InitMerge ==
    /\ rigs \in RigTrees
    /\ call = NoCall
    /\ IdleCluster

CallCanMergeInto ==
    /\ call = NoCall
    /\ \E self \in MergeArgs, other \in MergeArgs, sup \in BOOLEAN :
        /\ self.id = 1
        /\ self.id = other.id => self = other
        /\ call' = [op |-> "can_merge_into", self |-> self, other |-> other,
                    sup |-> sup, result |-> can_merge_into(self, other, sup)]
        /\ UNCHANGED <<rigs, cvars, bvars>>

CallGetMergePriority ==
    /\ call = NoCall
    /\ \E self \in PriorityArgs, other \in PriorityArgs :
        /\ self.id = 1
        /\ self.id = other.id => self = other
        /\ call' = [op |-> "get_merge_priority", self |-> self, other |-> other,
                    result |-> get_merge_priority(self, other)]
        /\ UNCHANGED <<rigs, cvars, bvars>>

CallIsBetterCluster ==
    /\ call = NoCall
    /\ \E self \in ClusterArgs, other \in ClusterArgs :
        /\ self.id = 1
        /\ self.id = other.id => self = other
        /\ call' = [op |-> "is_better_cluster", self |-> self, other |-> other,
                    result |-> is_better_cluster(self, other),
                    converse |-> is_better_cluster(other, self)]
        /\ UNCHANGED <<rigs, cvars, bvars>>

\* ControlQueryNode.__init__ arguments the merge predicates read
QueryArgs == [find_highest_layer : BOOLEAN]

CallQueryCanMergeInto ==
    /\ call = NoCall
    /\ \E self \in QueryArgs, other \in MergeArgs :
        /\ call' = [op |-> "query_can_merge_into", self |-> self, other |-> other,
                    result |-> query_can_merge_into(self, other)]
        /\ UNCHANGED <<rigs, cvars, bvars>>

\* the priorities one query node gives to two candidates
CallQueryGetMergePriority ==
    /\ call = NoCall
    /\ \E self \in QueryArgs, other \in PriorityArgs, another \in PriorityArgs :
        /\ call' = [op |-> "query_get_merge_priority", self |-> self,
                    other |-> other, another |-> another,
                    result |-> query_get_merge_priority(self, other),
                    result_another |-> query_get_merge_priority(self, another)]
        /\ UNCHANGED <<rigs, cvars, bvars>>

NextMerge ==
    \/ CallCanMergeInto
    \/ CallGetMergePriority
    \/ CallIsBetterCluster
    \/ CallQueryCanMergeInto
    \/ CallQueryGetMergePriority

SpecMerge == InitMerge /\ [][NextMerge]_vars

----------------------------------------------------------------------------
(* Claims on the merge predicates *)

CanMergeCalled == call.op = "can_merge_into"

\* C1: a.can_merge_into(b) is true only if a's chain priority is <= b's and
\* (a.layer <= b.layer or a's chain priority is strictly lower); it is never
\* true when dprio > 0.
C1_CanMergeOnlyUpward ==
    (CanMergeCalled /\ call.result) =>
        /\ chain_priority(call.self) <= chain_priority(call.other)
        /\ \/ call.self.layer <= call.other.layer
           \/ chain_priority(call.self) < chain_priority(call.other)
        /\ ~(chain_priority(call.self) - chain_priority(call.other) > 0)

C1_Witness ==
    /\ CanMergeCalled /\ call.result
    /\ call.self.layer > call.other.layer
    /\ chain_priority(call.self) < chain_priority(call.other)

C7_PartialOrderOnNodes ==
    (CanMergeCalled /\ call.sup) =>
        /\ (call.self = call.other => call.result)
        /\ \A c \in MergeArgs :
              (call.result /\ can_merge_into(call.other, c, TRUE))
                  => can_merge_into(call.self, c, TRUE)
        /\ (call.result /\ can_merge_into(call.other, call.self, TRUE))
              => call.self.id = call.other.id

SameRank(a, b) ==
    /\ chain_priority(a) = chain_priority(b)
    /\ a.layer = b.layer

\* C7 (amended): with the base-class test true, can_merge_into is reflexive and
\* transitive, and two nodes can_merge_into each other exactly when they have
\* the same chain priority and the same layer.
C7_PreorderOnRank ==
    (CanMergeCalled /\ call.sup) =>
        /\ (call.self = call.other => call.result)
        /\ \A c \in MergeArgs :
              (call.result /\ can_merge_into(call.other, c, TRUE))
                  => can_merge_into(call.self, c, TRUE)
        /\ (call.result /\ can_merge_into(call.other, call.self, TRUE))
              <=> SameRank(call.self, call.other)

C7_Witness ==
    /\ CanMergeCalled /\ call.sup /\ call.result
    /\ call.self.id # call.other.id
    /\ can_merge_into(call.other, call.self, TRUE)

PriorityCalled == call.op = "get_merge_priority"

\* a layer lies strictly between the layers of a and b
SkipsLayer(a, b) ==
    \E l \in Layers : \/ (a.layer < l /\ l < b.layer)
                      \/ (b.layer < l /\ l < a.layer)

AdjacentLayer(a, b) == a.layer # b.layer /\ ~SkipsLayer(a, b)

\* C8 (as stated): get_merge_priority is minus the absolute layer difference,
\* with the additional -100 exactly for merges that skip an intermediate layer,
\* so a merge into the adjacent layer outranks a merge that skips a layer.
C8_BiasOnSkip ==
    PriorityCalled =>
        /\ call.result =
              -Abs(call.self.layer - call.other.layer)
                  - (IF SkipsLayer(call.self, call.other) THEN 100 ELSE 0)
        /\ \A o \in PriorityArgs :
              (AdjacentLayer(call.self, call.other) /\ SkipsLayer(call.self, o))
                  => call.result > get_merge_priority(call.self, o)

\* C8 (amended): get_merge_priority is minus the absolute layer difference,
\* with the additional -100 exactly for merges into a lower layer
\* (self.layer > other.layer); for one node, a merge into the adjacent layer
\* outranks a merge that skips a layer.
C8_BiasOnLowerLayer ==
    PriorityCalled =>
        /\ call.result =
              -Abs(call.self.layer - call.other.layer)
                  - (IF call.self.layer > call.other.layer THEN 100 ELSE 0)
        /\ \A o \in PriorityArgs :
              (AdjacentLayer(call.self, call.other) /\ SkipsLayer(call.self, o))
                  => call.result > get_merge_priority(call.self, o)

C8_Witness ==
    /\ PriorityCalled
    /\ call.self.layer = ControlNodeLayer_FREE
    /\ call.other.layer = ControlNodeLayer_TWEAK
    /\ call.result = -20

BetterCalled == call.op = "is_better_cluster"

\* the rig-ancestor chain of a strictly extends that of b
StrictlyExtends(a, b) ==
    /\ Len(my_parents(a)) > Len(my_parents(b))
    /\ SubSeq(my_parents(a), 1, Len(my_parents(b))) = my_parents(b)

\* C9: a.is_better_cluster(b) is True when a's ancestor chain strictly extends
\* b's, False when b's strictly extends a's, whatever the sides; the side
\* preference decides only when neither chain extends the other.
C9_ChainBeforeSides ==
    BetterCalled =>
        /\ StrictlyExtends(call.self, call.other) => call.result
        /\ StrictlyExtends(call.other, call.self) => ~call.result

----------------------------------------------------------------------------
(* Parent generators.  A generator is referred to by a positive number, its  *)
(* position in the master's parent_subrig_cache, once it is interned, and by *)
(* a negative number -k, position k of the chain a rig has just built, while *)
(* it is not; 0 is None.                                                     *)

EmptyDict == <<>>

\* what the bone stages of a parent generator assign, before they have run
NoParentBones ==
    [generated |-> FALSE, mch_bones |-> <<>>, reuse_mch |-> FALSE,
     near |-> FALSE, rigged |-> FALSE, constraints |-> <<>>, drivers |-> <<>>]

ControlBoneParentOrg(org) ==
    [kind |-> "Org", key |-> org, parent |-> 0,
     copy_local |-> EmptyDict, add_local |-> EmptyDict,
     add_orientations |-> EmptyDict, limit_distance |-> <<>>,
     is_parent_frozen |-> TRUE, enabled |-> FALSE, made |-> NoParentBones]

\* key: the fields ControlBoneParentArmature.__eq__ compares
ControlBoneParentArmature(key) ==
    [kind |-> "Armature", key |-> key, parent |-> 0,
     copy_local |-> EmptyDict, add_local |-> EmptyDict,
     add_orientations |-> EmptyDict, limit_distance |-> <<>>,
     is_parent_frozen |-> (key.copy_scale # "None" \/ key.copy_rotation # "None"),
     enabled |-> FALSE, made |-> NoParentBones]

\* a ControlBoneWeakParentLayer around parent; key stands for the fields the
\* __eq__ of its subclass compares besides the wrapped parent
ControlBoneWeakParentLayer(parent, key) ==
    [kind |-> "Weak", key |-> key, parent |-> parent,
     copy_local |-> EmptyDict, add_local |-> EmptyDict,
     add_orientations |-> EmptyDict, limit_distance |-> <<>>,
     is_parent_frozen |-> FALSE, enabled |-> FALSE, made |-> NoParentBones]

\* ControlBoneParentOffset.wrap followed by the add_* calls that give it
\* its contents
ControlBoneParentOffset(parent, contents) ==
    [kind |-> "Offset", key |-> "", parent |-> parent,
     copy_local |-> contents.copy_local, add_local |-> contents.add_local,
     add_orientations |-> contents.add_orientations,
     limit_distance |-> contents.limit_distance,
     is_parent_frozen |-> FALSE, enabled |-> FALSE, made |-> NoParentBones]

Obj(c, ch, r) == IF r > 0 THEN c[r] ELSE ch[-r]

\* isinstance(g, ControlBoneParentLayer)
IsLayer(g) == g.kind \in {"Offset", "Weak"}

\* the __eq__ of the parent generators, x the left operand; a weak layer
\* compares as its subclasses do, by its own fields and the wrapped parent
RECURSIVE GenEq(_, _, _, _)
GenEq(c, ch, x, y) ==
    LET a == Obj(c, ch, x)
        b == Obj(c, ch, y)
    IN CASE a.kind = "Org" -> b.kind = "Org" /\ a.key = b.key
         [] a.kind = "Armature" -> b.kind = "Armature" /\ a.key = b.key
         [] a.kind = "Weak" ->
                /\ b.kind = "Weak"
                /\ a.key = b.key
                /\ GenEq(c, ch, a.parent, b.parent)
         [] a.kind = "Offset" ->
                /\ b.kind = "Offset"
                /\ GenEq(c, ch, a.parent, b.parent)
                /\ a.copy_local = b.copy_local
                /\ a.add_local = b.add_local
                /\ a.limit_distance = b.limit_distance

\* mutant: a generator equal to a cached one is cached again
RECURSIVE intern_parent_nosearch(_, _, _, _, _)
intern_parent_nosearch(c, nm, ch, name, r) ==
    IF r > 0
    THEN [cache |-> c, names |-> nm, result |-> r]
    ELSE LET n == Len(c) + 1
             c1 == Append(c, ch[-r])
             nm1 == Append(nm, name)
         IN IF IsLayer(ch[-r])
            THEN LET sub == intern_parent_nosearch(c1, nm1, ch, name, ch[-r].parent)
                 IN [cache |-> [sub.cache EXCEPT ![n].parent = sub.result],
                     names |-> sub.names, result |-> n]
            ELSE [cache |-> c1, names |-> nm1, result |-> n]

\* ControlBoneNode.intern_parent on the master with cache c and names nm, for
\* the parent r of the chain ch built for the node called name
RECURSIVE intern_parent(_, _, _, _, _)
intern_parent(c, nm, ch, name, r) ==
    IF r > 0
    THEN [cache |-> c, names |-> nm, result |-> r]
    ELSE IF \E i \in 1..Len(c) : GenEq(c, ch, i, r)
    THEN LET i == CHOOSE i \in 1..Len(c) :
                     /\ GenEq(c, ch, i, r)
                     /\ \A j \in 1..(i - 1) : ~GenEq(c, ch, j, r)
         IN [cache |-> [c EXCEPT ![i].is_parent_frozen = TRUE],
             names |-> nm, result |-> i]
    ELSE LET n == Len(c) + 1
             c1 == Append(c, ch[-r])
             nm1 == Append(nm, name)
         IN IF IsLayer(ch[-r])
            THEN LET sub == intern_parent(c1, nm1, ch, name, ch[-r].parent)
                 IN [cache |-> [sub.cache EXCEPT ![n].parent = sub.result],
                     names |-> sub.names, result |-> n]
            ELSE [cache |-> c1, names |-> nm1, result |-> n]

\* register_use_parent: used_parents[id(parent)] = parent
register_use_parent(st, g) ==
    [st EXCEPT !.cache[g].is_parent_frozen = TRUE,
               !.used_parents = IF \E i \in 1..Len(@) : @[i] = g
                                THEN @ ELSE Append(@, g)]

\* ControlBoneNode.build_parent_for_node on the master whose state is st, for
\* the parent b.top of the chain b.chain the rigs of the node have built
build_parent_for_node(st, b, name, use_parent) ==
    LET r == intern_parent(st.cache, st.names, b.chain, name, b.top)
        st1 == [st EXCEPT !.cache = [r.cache EXCEPT ![r.result].is_parent_frozen = TRUE],
                          !.names = r.names,
                          !.result = r.result]
    IN IF use_parent THEN register_use_parent(st1, r.result) ELSE st1

\* mutant: the value of the wrapped Offset is dropped
JoinCopyLocal_mine(val, val0) == val0

JoinCopyLocal(val, val0) == <<val[1] + val0[1], val[2] \o val0[2], val[3] \o val0[3]>>

JoinAddLocal(ot, my) == <<ot[1] \o my[1], ot[2] \o my[2], ot[3] \o my[3]>>

\* what a loop of prepend_contents leaves under a key both dicts have
JoinValues(field, ot, my) ==
    CASE field = "copy_local" -> JoinCopyLocal(ot, my)
      [] field = "add_local" -> JoinAddLocal(ot, my)
      [] field = "add_orientations" -> my

\* one loop of prepend_contents over the items of other
DictPrepend(field, mine, other) ==
    LET keys == (DOMAIN mine) \cup (DOMAIN other) IN
    IF keys = {} THEN EmptyDict
    ELSE [k \in keys |->
            IF k \notin DOMAIN mine THEN other[k]
            ELSE IF k \notin DOMAIN other THEN mine[k]
            ELSE JoinValues(field, other[k], mine[k])]

\* ControlBoneParentOffset.prepend_contents
prepend_contents(self, other) ==
    [self EXCEPT
        !.copy_local = DictPrepend("copy_local", self.copy_local, other.copy_local),
        !.add_orientations =
            DictPrepend("add_orientations", self.add_orientations,
                        other.add_orientations),
        !.add_local = DictPrepend("add_local", self.add_local, other.add_local),
        !.limit_distance = other.limit_distance \o self.limit_distance]

\* mutant: a frozen wrapped Offset is collapsed too
RECURSIVE CollapseParents_frozen(_, _)
CollapseParents_frozen(c, g) ==
    LET p == c[g].parent IN
    IF p # 0 /\ c[p].kind = "Offset"
    THEN CollapseParents_frozen(
             [c EXCEPT ![g] = [prepend_contents(c[g], c[p]) EXCEPT !.parent = c[p].parent]],
             g)
    ELSE c

\* the while loop of ControlBoneParentOffset.enable_component
RECURSIVE CollapseParents(_, _)
CollapseParents(c, g) ==
    LET p == c[g].parent IN
    IF p # 0 /\ c[p].kind = "Offset" /\ ~c[p].is_parent_frozen
    THEN CollapseParents(
             [c EXCEPT ![g] = [prepend_contents(c[g], c[p]) EXCEPT !.parent = c[p].parent]],
             g)
    ELSE c

\* enable_component of Org (pass), of Armature (LazyRigComponent), of Layer
\* (the wrapped parent first) and of Offset (the collapse before that)
RECURSIVE enable_component(_, _)
enable_component(c, g) ==
    CASE c[g].kind = "Org" -> c
      [] c[g].kind = "Armature" -> [c EXCEPT ![g].enabled = TRUE]
      [] c[g].kind = "Weak" ->
            [enable_component(c, c[g].parent) EXCEPT ![g].enabled = TRUE]
      [] c[g].kind = "Offset" ->
            LET c1 == CollapseParents(c, g)
                c2 == enable_component(c1, c1[g].parent)
            IN [c2 EXCEPT ![g].enabled = TRUE]

\* ControlBoneWeakParentLayer.strip
RECURSIVE strip(_, _)
strip(c, g) ==
    IF g # 0 /\ c[g].kind = "Weak" THEN strip(c, c[g].parent) ELSE g

\* the fields __eq__ compares, down the chain of wrapped parents
RECURSIVE StructureOf(_, _, _)
StructureOf(c, ch, r) ==
    LET g == Obj(c, ch, r) IN
    <<[kind |-> g.kind, key |-> g.key, copy_local |-> g.copy_local,
       add_local |-> g.add_local, limit_distance |-> g.limit_distance]>>
    \o (IF IsLayer(g) THEN StructureOf(c, ch, g.parent) ELSE <<>>)

\* the master's state the parent methods work on
MasterState ==
    [cache |-> cache, names |-> names, used_parents |-> used_parents,
     reparent_requests |-> reparent_requests, node_parent |-> node_parent,
     result |-> 0, raised |-> FALSE]

\* ControlBoneNode.build_parent of node c, whose rigs build b
build_parent(st, c, b) ==
    IF st.node_parent[c] # 0
    THEN [st EXCEPT !.result = st.node_parent[c]]
    ELSE LET st1 == build_parent_for_node(st, b, c, FALSE)
         IN [st1 EXCEPT !.node_parent[c] = st1.result]

\* parent in requests: by identity or by __eq__
InRequests(st, parent) ==
    \E i \in 1..Len(st.reparent_requests) :
        \/ st.reparent_requests[i] = parent
        \/ GenEq(st.cache, <<>>, st.reparent_requests[i], parent)

\* mutant: the parent of the master is not registered with the request
request_reparent_noprimary(st, m, ms, parent) ==
    IF InRequests(st, parent) THEN st
    ELSE IF st.node_parent[m] = 0 THEN [st EXCEPT !.raised = TRUE]
    ELSE IF GenEq(st.cache, <<>>, parent, st.node_parent[m]) /\ ~ms.initialized
    THEN [st EXCEPT !.raised = TRUE]
    ELSE [register_use_parent(st, parent) EXCEPT
             !.reparent_requests = Append(@, parent)]

\* mutant: a master without a parent adopts the requested one
request_reparent_adopt(st, m, ms, parent) ==
    IF InRequests(st, parent) THEN st
    ELSE IF st.node_parent[m] = 0
    THEN [register_use_parent(st, parent) EXCEPT
             !.node_parent[m] = parent,
             !.reparent_requests = Append(@, parent)]
    ELSE IF GenEq(st.cache, <<>>, parent, st.node_parent[m]) /\ ~ms.initialized
    THEN [st EXCEPT !.raised = TRUE]
    ELSE LET st1 == IF ~GenEq(st.cache, <<>>, parent, st.node_parent[m])
                       \/ ms.use_mix_parent
                    THEN register_use_parent(st, st.node_parent[m])
                    ELSE st
             st2 == register_use_parent(st1, parent)
         IN [st2 EXCEPT !.reparent_requests = Append(@, parent)]

\* ControlBoneNode.request_reparent; m is the master and ms what its
\* initialize has assigned.  With master.node_parent None, parent != None is
\* true and register_use_parent(None) raises; use_mix_parent is read only
\* when parent equals master.node_parent.
request_reparent(st, m, ms, parent) ==
    IF InRequests(st, parent) THEN st
    ELSE IF st.node_parent[m] = 0 THEN [st EXCEPT !.raised = TRUE]
    ELSE IF GenEq(st.cache, <<>>, parent, st.node_parent[m]) /\ ~ms.initialized
    THEN [st EXCEPT !.raised = TRUE]
    ELSE LET st1 == IF ~GenEq(st.cache, <<>>, parent, st.node_parent[m])
                       \/ ms.use_mix_parent
                    THEN register_use_parent(st, st.node_parent[m])
                    ELSE st
             st2 == register_use_parent(st1, parent)
         IN [st2 EXCEPT !.reparent_requests = Append(@, parent)]

----------------------------------------------------------------------------
(* One merge cluster: merge_done and find_mirror_siblings *)

NodeIds == DOMAIN node

FlatRigs == [i \in RigIds |-> [rigify_parent |-> 0, chain_priority |-> 0]]

ControlNodeIcon_TWEAK == 0
ControlNodeIcon_MIDDLE_PIVOT == 1
ControlNodeIcon_FREE == 2
ControlNodeIcon_CUSTOM == 3

Icons == {ControlNodeIcon_TWEAK, ControlNodeIcon_MIDDLE_PIVOT,
          ControlNodeIcon_FREE, ControlNodeIcon_CUSTOM}

\* name_merged_split before find_mirror_siblings has assigned it (None)
NoName == [base |-> "None", side |-> 0, side_z |-> 0]

NoMirror ==
    [mirror_siblings |-> <<>>, mirror_sides_x |-> {}, mirror_sides_z |-> {},
     name_merged_split |-> NoName]

RECURSIVE SortedSeq(_)
SortedSeq(S) ==
    IF S = {} THEN <<>>
    ELSE LET m == CHOOSE x \in S : \A y \in S : x <= y
         IN <<m>> \o SortedSeq(S \ {m})

\* MainMergeNode.get_merged_siblings (rigify): the master, then the nodes
\* merged into it
get_merged_siblings == <<master>> \o SortedSeq(NodeIds \ {master})

\* a dict as the sequence of its <<key, value>> items in insertion order
DictHas(d, k) == \E i \in 1..Len(d) : d[i][1] = k

DictGet(d, k) == d[CHOOSE i \in 1..Len(d) : d[i][1] = k][2]

DictPut(d, k, v) ==
    IF DictHas(d, k)
    THEN [i \in 1..Len(d) |-> IF d[i][1] = k THEN <<k, v>> ELSE d[i]]
    ELSE Append(d, <<k, v>>)

DictValues(d) == [i \in 1..Len(d) |-> d[i][2]]

\* mutant: the name base of a sibling is not compared
MirrorLoop_anybase(self, sibs, acc) ==
    LET Step[i \in 0..Len(sibs)] ==
            IF i = 0 THEN acc
            ELSE LET prev == Step[i - 1]
                     n == sibs[i]
                 IN [mirror_siblings |->
                         DictPut(prev.mirror_siblings, node[n].name_split, n),
                     mirror_sides_x |->
                         prev.mirror_sides_x \cup {node[n].name_split.side},
                     mirror_sides_z |->
                         prev.mirror_sides_z \cup {node[n].name_split.side_z},
                     name_merged_split |-> prev.name_merged_split]
    IN Step[Len(sibs)]

\* the loop of find_mirror_siblings over get_merged_siblings()
MirrorLoop(self, sibs, acc) ==
    LET Step[i \in 0..Len(sibs)] ==
            IF i = 0 THEN acc
            ELSE LET prev == Step[i - 1]
                     n == sibs[i]
                 IN IF node[n].name_split.base = node[self].name_split.base
                    THEN [mirror_siblings |->
                              DictPut(prev.mirror_siblings, node[n].name_split, n),
                          mirror_sides_x |->
                              prev.mirror_sides_x \cup {node[n].name_split.side},
                          mirror_sides_z |->
                              prev.mirror_sides_z \cup {node[n].name_split.side_z},
                          name_merged_split |-> prev.name_merged_split]
                    ELSE prev
    IN Step[Len(sibs)]

\* the assertion of find_mirror_siblings
MirrorAssertion(self, m) ==
    DictGet(m.mirror_siblings, node[self].name_split) = self

\* find_mirror_siblings when its assertion holds
find_mirror_siblings(self) ==
    LET m == MirrorLoop(self, get_merged_siblings, NoMirror)
        side_x == IF Cardinality(m.mirror_sides_x) > 1
                  THEN 0 ELSE node[self].name_split.side
        side_z == IF Cardinality(m.mirror_sides_z) > 1
                  THEN 0 ELSE node[self].name_split.side_z
    IN [m EXCEPT !.name_merged_split =
            [base |-> node[self].name_split.base, side |-> side_x, side_z |-> side_z]]

\* the components of the cluster: control nodes and query nodes
Components == NodeIds \cup DOMAIN query

\* the stage ends when its method has returned on every component of comps
StageAfter(c, next, comps) ==
    IF ran \cup {c} = comps
    THEN stage' = next /\ ran' = {}
    ELSE stage' = stage /\ ran' = ran \cup {c}

\* ControlBoneNode.merge_done
MergeDone(n) ==
    /\ stage = "merge_done"
    /\ ~aborted
    /\ n \in NodeIds \ ran
    /\ IF n = master
       THEN /\ cache' = <<>>
            /\ names' = <<>>
            /\ reparent_requests' = <<>>
            /\ used_parents' = <<>>
       ELSE UNCHANGED <<cache, names, reparent_requests, used_parents>>
    /\ LET m == MirrorLoop(n, get_merged_siblings, NoMirror) IN
       IF MirrorAssertion(n, m)
       THEN /\ mirror' = [mirror EXCEPT ![n] = find_mirror_siblings(n)]
            /\ StageAfter(n, "initialize", NodeIds)
            /\ UNCHANGED aborted
       ELSE /\ mirror' = [mirror EXCEPT ![n] = m]
            /\ aborted' = TRUE
            /\ UNCHANGED <<stage, ran>>
    /\ UNCHANGED <<mvars, node, master, query, node_parent, rotation, mstate,
                   bones, widget, built_log>>

----------------------------------------------------------------------------
(* SpecNames: merge_done over clusters of named nodes *)

ClusterNames == [base : {"a", "b"}, side : Sides, side_z : {0, 2}]

NamedNodes ==
    [rig : {1}, layer : {ControlNodeLayer_FREE}, icon : {ControlNodeIcon_TWEAK},
     name_split : ClusterNames, size : {1},
     needs_parent : {FALSE}, needs_reparent : {FALSE}]

InitNames ==
    /\ rigs = FlatRigs
    /\ call = NoCall
    /\ node \in [1..NumNodes -> NamedNodes]
    /\ master = 1
    /\ stage = "merge_done"
    /\ ran = {}
    /\ aborted = FALSE
    /\ mirror = [n \in 1..NumNodes |-> NoMirror]
    /\ IdleBuild

NextNames == \E n \in NodeIds : MergeDone(n)

SpecNames == InitNames /\ [][NextNames]_vars

\* the merged siblings of n with exactly the same name base
MirrorSiblingsOf(n) ==
    {m \in NodeIds : node[m].name_split.base = node[n].name_split.base}

MergeDoneReturned(n) == mirror[n].name_merged_split # NoName

\* C6: after merge_done, each side axis of a node's merged name is MIDDLE iff
\* at least 2 distinct values of that axis are present among its mirror
\* siblings (the merged siblings with the same name base); otherwise the
\* merged name keeps the node's own side on that axis.
C6_SideCollapse ==
    \A n \in NodeIds :
        MergeDoneReturned(n) =>
            LET xs == {node[m].name_split.side : m \in MirrorSiblingsOf(n)}
                zs == {node[m].name_split.side_z : m \in MirrorSiblingsOf(n)}
                merged == mirror[n].name_merged_split
            IN /\ merged.base = node[n].name_split.base
               /\ merged.side = IF Cardinality(xs) >= 2
                                THEN 0 ELSE node[n].name_split.side
               /\ merged.side_z = IF Cardinality(zs) >= 2
                                  THEN 0 ELSE node[n].name_split.side_z

\* a left node with a right mirror sibling, both on top, and a merged sibling
\* of another base in the middle
C6_Witness ==
    \E n \in NodeIds, m \in NodeIds, o \in NodeIds :
        /\ MergeDoneReturned(n)
        /\ node[n].name_split = [base |-> "a", side |-> -1, side_z |-> 2]
        /\ node[m].name_split = [base |-> "a", side |-> 1, side_z |-> 2]
        /\ node[o].name_split = [base |-> "b", side |-> 0, side_z |-> 0]
        /\ mirror[n].name_merged_split = [base |-> "a", side |-> 0, side_z |-> 2]

----------------------------------------------------------------------------
(* generate_widgets *)

\* mutant: the master's own icon decides
BestIconNode_self(sibs) == sibs[1]

\* max(sibs, key=lambda n: n.icon): the first node of the highest icon
BestIconNode(sibs) ==
    sibs[CHOOSE i \in 1..Len(sibs) :
            /\ \A j \in 1..Len(sibs) : node[sibs[j]].icon <= node[sibs[i]].icon
            /\ \A j \in 1..(i - 1) : node[sibs[j]].icon < node[sibs[i]].icon]

\* ControlBoneNode.generate_widgets; the methods of the other nodes return at once
GenerateWidgets ==
    /\ stage = "generate_widgets"
    /\ ~aborted
    /\ LET best == BestIconNode(get_merged_siblings) IN
       widget' = IF node[best].icon = ControlNodeIcon_TWEAK THEN "sphere"
                 ELSE IF node[best].icon \in {ControlNodeIcon_MIDDLE_PIVOT,
                                             ControlNodeIcon_FREE} THEN "cube"
                 ELSE "custom"
    /\ stage' = "done"
    /\ UNCHANGED <<mvars, node, master, ran, aborted, mirror, query, cache, names,
                   used_parents, reparent_requests, node_parent, rotation, mstate,
                   bones, built_log>>

----------------------------------------------------------------------------
(* SpecWidget: the widget stage over clusters of nodes of any layer and icon *)

WidgetNodes ==
    [rig : {1}, layer : Layers, icon : Icons,
     name_split : {MiddleName}, size : {1},
     needs_parent : {FALSE}, needs_reparent : {FALSE}]

\* a cluster at the start of the widget stage; every node of it could merge
\* into its master
InitWidget ==
    /\ rigs = FlatRigs
    /\ call = NoCall
    /\ node \in [1..NumNodes -> WidgetNodes]
    /\ master \in 1..NumNodes
    /\ \A n \in 1..NumNodes : can_merge_into(node[n], node[master], TRUE)
    /\ stage = "generate_widgets"
    /\ ran = {}
    /\ aborted = FALSE
    /\ mirror = [n \in 1..NumNodes |-> NoMirror]
    /\ query = <<>>
    /\ cache = <<>>
    /\ names = <<>>
    /\ used_parents = <<>>
    /\ reparent_requests = <<>>
    /\ node_parent = [n \in 1..NumNodes |-> 0]
    /\ rotation = {}
    /\ mstate = NoMaster
    /\ bones = NoBones
    /\ widget = "none"
    /\ built_log = <<>>

NextWidget == GenerateWidgets

SpecWidget == InitWidget /\ [][NextWidget]_vars

\* layers FREE, FREE, TWEAK, each node with the icon of its own tier, and the
\* TWEAK node the master
FreeFreeTweak ==
    /\ \E t \in NodeIds :
          /\ t = master
          /\ node[t].layer = ControlNodeLayer_TWEAK
          /\ node[t].icon = ControlNodeIcon_TWEAK
          /\ \A n \in NodeIds \ {t} : /\ node[n].layer = ControlNodeLayer_FREE
                                       /\ node[n].icon = ControlNodeIcon_FREE
    /\ Cardinality(NodeIds) >= 3

\* C5 (as stated): for sibling nodes of layers FREE, FREE, TWEAK, each with the
\* icon of its own tier and the TWEAK node the master, generate_widgets gives
\* the control bone the sphere widget.
C5_TweakMasterSphere ==
    (stage = "done" /\ FreeFreeTweak) => widget = "sphere"

\* C5 (amended): in that cluster generate_widgets gives the control bone the
\* cube widget: the widget is the one of the highest icon value among the
\* merged siblings, and FREE (2) is higher than TWEAK (0).
C5_TweakMasterCube ==
    (stage = "done" /\ FreeFreeTweak) => widget = "cube"

C5_Witness == stage = "done" /\ FreeFreeTweak /\ widget = "cube"

----------------------------------------------------------------------------
(* prepare_bones *)

\* ControlBoneNode.prepare_bones of the master; used_parents becomes None
PrepareBones ==
    /\ stage = "prepare_bones"
    /\ ~aborted
    /\ LET Enabled[i \in 0..Len(used_parents)] ==
               IF i = 0 THEN cache
               ELSE enable_component(Enabled[i - 1], used_parents[i])
       IN cache' = Enabled[Len(used_parents)]
    /\ used_parents' = <<>>
    /\ stage' = "generate_bones"
    /\ UNCHANGED <<mvars, node, master, ran, aborted, mirror, query, names,
                   reparent_requests, node_parent, rotation, mstate, bones,
                   widget, built_log>>

----------------------------------------------------------------------------
(* The parents the rigs build for a node: build_own_control_node_parent and *)
(* the extend_control_node_parent hooks of the parent skin rigs             *)

ContentA ==
    [copy_local |-> [t \in {"t1"} |-> <<1, <<>>, <<>>>>],
     add_local |-> EmptyDict, add_orientations |-> EmptyDict,
     limit_distance |-> <<>>]

ContentB ==
    [copy_local |-> [t \in {"t1"} |-> <<0, <<<<<<<<"txt", <<"e1">>>>>>, <<>>>>>>, <<>>>>],
     add_local |-> EmptyDict, add_orientations |-> EmptyDict,
     limit_distance |-> <<"d1">>]

ArmatureKey ==
    [point |-> "p", orientation |-> "None", bones |-> "b1",
     copy_scale |-> "None", copy_rotation |-> "None"]

Bottoms == {ControlBoneParentOrg("o1"), ControlBoneParentArmature(ArmatureKey)}

\* the contents of the Offset layers of a chain, outermost first
LayerSeqs(contents, depth) == UNION {[1..d -> contents] : d \in 0..depth}

\* Offsets of contents cs around a new bottom generator
FreshChain(cs, bottom) ==
    [chain |-> [k \in 1..(Len(cs) + 1) |->
                   IF k <= Len(cs)
                   THEN ControlBoneParentOffset(-(k + 1), cs[k])
                   ELSE bottom],
     top |-> -1]

\* Offsets of contents cs around the generator g an earlier call returned
ChainAround(cs, g) ==
    [chain |-> [k \in 1..Len(cs) |->
                   ControlBoneParentOffset(IF k < Len(cs) THEN -(k + 1) ELSE g, cs[k])],
     top |-> IF cs = <<>> THEN g ELSE -1]

Returned == {node_parent[c] : c \in DOMAIN node_parent} \ {0}

BuiltParents(contents, depth) ==
    {FreshChain(cs, b) : cs \in LayerSeqs(contents, depth), b \in Bottoms}
    \cup {ChainAround(cs, g) : cs \in LayerSeqs(contents, 1), g \in Returned}

----------------------------------------------------------------------------
(* SpecIntern: build_parent_for_node calls on one master, then prepare_bones *)

InitIntern ==
    /\ rigs = FlatRigs
    /\ call = NoCall
    /\ node = <<>>
    /\ master = 0
    /\ stage = "initialize"
    /\ ran = {}
    /\ aborted = FALSE
    /\ mirror = <<>>
    /\ IdleBuild

\* master.build_parent_for_node(node, use_parent) from the initialize of the
\* node making the call
CallBuildParentForNode ==
    /\ stage = "initialize"
    /\ Len(node_parent) < MaxBuilds
    /\ \E b \in BuiltParents({ContentA, ContentB}, 2), use_parent \in BOOLEAN :
         LET st == build_parent_for_node(MasterState, b, Len(node_parent) + 1,
                                        use_parent)
         IN /\ cache' = st.cache
            /\ names' = st.names
            /\ used_parents' = st.used_parents
            /\ node_parent' = Append(node_parent, st.result)
            /\ built_log' = Append(built_log, StructureOf(cache, b.chain, b.top))
    /\ UNCHANGED <<mvars, cvars, query, reparent_requests, rotation, mstate,
                   bones, widget>>

\* every initialize has returned: the generator goes to the next stage
EndInitialize ==
    /\ stage = "initialize"
    /\ node = <<>>
    /\ stage' = "prepare_bones"
    /\ UNCHANGED <<mvars, node, master, ran, aborted, mirror, bvars>>

NextIntern ==
    \/ CallBuildParentForNode
    \/ EndInitialize
    \/ PrepareBones

SpecIntern == InitIntern /\ [][NextIntern]_vars

Wrappers(g) == {i \in 1..Len(cache) : IsLayer(cache[i]) /\ cache[i].parent = g}

\* the build_parent_for_node calls that returned g
Returns(g) == {k \in DOMAIN node_parent : node_parent[k] = g}

IsUsed(g) == \E i \in 1..Len(used_parents) : used_parents[i] = g

\* g has a second owner or consumer
ClaimedTwice(g) ==
    \/ Cardinality(Wrappers(g)) + Cardinality(Returns(g)) >= 2
    \/ IsUsed(g)

\* the generators between from and to on the chain of wrapped parents
RECURSIVE Skipped(_, _, _)
Skipped(c, from, to) ==
    IF from = to \/ from = 0 THEN {}
    ELSE {from} \cup Skipped(c, c[from].parent, to)

ContentsOf(g) ==
    [copy_local |-> g.copy_local, add_local |-> g.add_local,
     add_orientations |-> g.add_orientations, limit_distance |-> g.limit_distance]

SharedAreFrozen ==
    stage \in {"initialize", "prepare_bones"} =>
        \A g \in 1..Len(cache) : ClaimedTwice(g) => cache[g].is_parent_frozen

\* no step collapses a frozen or shared generator into a wrapper
NoSharedCollapsed ==
    \A i \in 1..Len(cache) :
        \A q \in Skipped(cache, cache[i].parent, cache'[i].parent) :
            ~cache[q].is_parent_frozen /\ ~ClaimedTwice(q)

\* C10 (as stated): a parent generator claimed by a second owner or consumer
\* is frozen, so no later Offset.enable_component collapses it into a wrapper
\* or otherwise changes its accumulated contents.
C10_SharedFrozenImmutable ==
    /\ []SharedAreFrozen
    /\ [][/\ NoSharedCollapsed
          /\ \A g \in 1..Len(cache) :
                (cache[g].is_parent_frozen /\ ClaimedTwice(g))
                    => ContentsOf(cache'[g]) = ContentsOf(cache[g])]_vars

\* C10 (amended): a parent generator claimed by a second owner or consumer is
\* frozen, so no later Offset.enable_component collapses it into a wrapper;
\* its accumulated contents change only when its own enable_component
\* collapses its own un-frozen wrapped Offsets into it.
C10_SharedFrozenNotCollapsed ==
    /\ []SharedAreFrozen
    /\ [][/\ NoSharedCollapsed
          /\ \A g \in 1..Len(cache) :
                (/\ cache[g].is_parent_frozen
                 /\ ClaimedTwice(g)
                 /\ ContentsOf(cache'[g]) # ContentsOf(cache[g]))
                    => /\ stage = "prepare_bones"
                       /\ cache[g].parent \in
                              Skipped(cache, cache[g].parent, cache'[g].parent)]_vars

\* after prepare_bones: an Offset wrapped by two enabled Offsets, frozen and
\* still wrapped by both
C10_Witness ==
    /\ stage = "generate_bones"
    /\ \E q \in 1..Len(cache) :
          /\ cache[q].kind = "Offset"
          /\ cache[q].is_parent_frozen
          /\ Cardinality({i \in Wrappers(q) : cache[i].enabled}) >= 2

----------------------------------------------------------------------------
(* initialize *)

\* a control node or a position query that asks for a reparent bone
WantsReparent(c) ==
    IF c \in NodeIds THEN node[c].needs_reparent
    ELSE query[c].needs_reparent /\ ~query[c].rig_org

\* the nodes on which this initialize of n calls the rigs to build a parent
Builders(n) ==
    {c \in NodeIds :
        /\ node_parent[c] = 0
        /\ \/ /\ n = master
              /\ \E i \in 1..Len(mirror[n].mirror_siblings) :
                    mirror[n].mirror_siblings[i][2] = c
           \/ c = n /\ (node[n].needs_parent \/ node[n].needs_reparent)}

\* node_parent_list = [node.build_parent() for node in mirror_sibling_list]:
\* tpl[c] is what the rigs of node c build
BuildMirrorParents(mirror_sibling_list, tpl) ==
    LET Built[i \in 0..Len(mirror_sibling_list)] ==
            IF i = 0 THEN MasterState
            ELSE build_parent(Built[i - 1], mirror_sibling_list[i],
                              tpl[mirror_sibling_list[i]])
    IN Built[Len(mirror_sibling_list)]

\* mutant: the parents of the mirror siblings are not compared
SameParents_single(st, n, mirror_sibling_list) == TRUE

\* all(parent == self.node_parent for parent in self.node_parent_list)
SameParents(st, n, mirror_sibling_list) ==
    \A i \in 1..Len(mirror_sibling_list) :
        GenEq(st.cache, <<>>, st.node_parent[mirror_sibling_list[i]],
              st.node_parent[n])

\* for parent in self.node_parent_list: self.register_use_parent(parent)
RegisterParents(st, node_parent_list) ==
    LET Used[i \in 0..Len(node_parent_list)] ==
            IF i = 0 THEN st
            ELSE register_use_parent(Used[i - 1], node_parent_list[i])
    IN Used[Len(node_parent_list)]

\* self.size = sum(node.size for node in best_mirror) / len(best_mirror), as
\* the pair of the sum and the length
MasterSize ==
    LET best == BestIconNode(get_merged_siblings)
        best_mirror == DictValues(mirror[best].mirror_siblings)
        SizeSum[i \in 0..Len(best_mirror)] ==
            IF i = 0 THEN 0 ELSE SizeSum[i - 1] + node[best_mirror[i]].size
    IN <<SizeSum[Len(best_mirror)], Len(best_mirror)>>

\* mutant: no parent counts as a weak layer
HasWeakParent_never(c, g) == FALSE

\* isinstance(self.node_parent, ControlBoneWeakParentLayer)
HasWeakParent(c, g) == c[g].kind = "Weak"

\* the fields the master part of ControlBoneNode.initialize assigns, st being
\* the master state after the parents are built and same the result of all()
InitializeMaster(n, st, mirror_sibling_list, same) ==
    [initialized |-> TRUE,
     size |-> MasterSize,
     node_parent_list |->
         IF same THEN <<strip(st.cache, st.node_parent[n])>>
         ELSE [i \in 1..Len(mirror_sibling_list) |->
                  strip(st.cache, st.node_parent[mirror_sibling_list[i]])],
     use_mix_parent |-> ~same,
     has_weak_parent |-> HasWeakParent(st.cache, st.node_parent[n]),
     node_parent_base |-> strip(st.cache, st.node_parent[n])]

\* the part of ControlBoneNode.initialize every node runs
InitializeAllNodes(st, ms, n, tpl) ==
    IF node[n].needs_parent \/ node[n].needs_reparent
    THEN LET st1 == build_parent(st, n, tpl[n])
         IN IF node[n].needs_reparent
            THEN request_reparent(st1, master, ms, st1.result)
            ELSE st1
    ELSE st

\* the parents the rigs of the cluster build
ClusterParents ==
    BuiltParents({ContentA}, 1)
    \cup {[chain |-> <<ControlBoneWeakParentLayer(-2, "w"), ControlBoneParentOrg("o1")>>,
           top |-> -1]}

\* the assignments of an initialize that ends in state st
InitializeEnds(c, st) ==
    /\ cache' = st.cache
    /\ names' = st.names
    /\ used_parents' = st.used_parents
    /\ reparent_requests' = st.reparent_requests
    /\ node_parent' = st.node_parent
    /\ aborted' = st.raised
    /\ IF st.raised
       THEN UNCHANGED <<stage, ran>>
       ELSE StageAfter(c, "prepare_bones", Components)

\* ControlBoneNode.initialize
Initialize(n) ==
    /\ stage = "initialize"
    /\ ~aborted
    /\ n \in NodeIds \ ran
    /\ \E tpl \in [Builders(n) -> ClusterParents] :
         IF n = master
         THEN \E mirror_sibling_list \in {DictValues(mirror[n].mirror_siblings)} :
              \E st1 \in {BuildMirrorParents(mirror_sibling_list, tpl)} :
              \E same \in {SameParents(st1, n, mirror_sibling_list)} :
              \E ms \in {InitializeMaster(n, st1, mirror_sibling_list, same)} :
              \E st2 \in {RegisterParents(st1, ms.node_parent_list)} :
              \E st \in {InitializeAllNodes(st2, ms, n, tpl)} :
                 /\ InitializeEnds(n, st)
                 /\ mstate' = ms
                 /\ rotation' = rotation \cup
                        {mirror_sibling_list[i] : i \in 1..Len(mirror_sibling_list)}
         ELSE \E st \in {InitializeAllNodes(MasterState, mstate, n, tpl)} :
                 /\ InitializeEnds(n, st)
                 /\ UNCHANGED <<mstate, rotation>>
    /\ UNCHANGED <<mvars, node, master, mirror, query, bones, widget, built_log>>

\* PositionQueryNode.initialize
QueryInitialize(q) ==
    /\ stage = "initialize"
    /\ ~aborted
    /\ q \in (DOMAIN query) \ ran
    /\ IF query[q].needs_reparent
       THEN \E b \in ClusterParents :
              LET st1 == build_parent_for_node(MasterState, b, q, TRUE)
                  st2 == [st1 EXCEPT !.node_parent[q] = st1.result]
                  st == IF ~query[q].rig_org
                        THEN request_reparent(st2, master, mstate, st2.result)
                        ELSE st2
              IN InitializeEnds(q, st)
       ELSE InitializeEnds(q, MasterState)
    /\ UNCHANGED <<mvars, node, master, mirror, query, rotation, mstate, bones,
                   widget, built_log>>

----------------------------------------------------------------------------
(* generate_bones *)

\* mutant: a requested parent gets a bone whatever reparent_bones holds
MakeReparents_all(rb, made, requests) ==
    LET Step[i \in 0..Len(requests)] ==
            IF i = 0 THEN [rb |-> rb, made |-> made]
            ELSE [rb |-> DictPut(Step[i - 1].rb, requests[i],
                                 <<"reparent", requests[i]>>),
                  made |-> Append(Step[i - 1].made, <<"reparent", requests[i]>>)]
    IN Step[Len(requests)]

\* the loop over reparent_requests of generate_bones: rb is reparent_bones,
\* made the bones make_bone has created
MakeReparents(rb, made, requests) ==
    LET Step[i \in 0..Len(requests)] ==
            IF i = 0 THEN [rb |-> rb, made |-> made]
            ELSE IF DictHas(Step[i - 1].rb, requests[i]) THEN Step[i - 1]
            ELSE [rb |-> DictPut(Step[i - 1].rb, requests[i],
                                 <<"reparent", requests[i]>>),
                  made |-> Append(Step[i - 1].made, <<"reparent", requests[i]>>)]
    IN Step[Len(requests)]

\* the scale generate_bones passes to make_bone for each kind of bone
make_bone_scale(bone) ==
    CASE bone[1] = "control" -> <<1, 1>>
      [] bone[1] = "mix_parent" -> <<1, 2>>
      [] bone[1] = "reparent" -> <<1, 3>>
      [] bone[1] = "weak_parent" -> <<1, 2>>

\* bone.length = self.merged_master.size * scale, as a fraction
make_bone_length(size, bone) ==
    <<size[1] * make_bone_scale(bone)[1], size[2] * make_bone_scale(bone)[2]>>

\* ControlBoneNode.generate_bones of the master; the methods of the other
\* nodes return at once
GenerateBones ==
    /\ stage = "generate_bones"
    /\ ~aborted
    /\ LET control == <<"control", master>>
           mix == <<"mix_parent", master>>
           rb0 == IF mstate.use_mix_parent THEN <<>>
                  ELSE <<<<node_parent[master], control>>>>
           made0 == IF mstate.use_mix_parent THEN <<control, mix>> ELSE <<control>>
           r == MakeReparents(rb0, made0, reparent_requests)
           use_weak_parent == Len(r.made) > Len(made0) /\ mstate.has_weak_parent
           made == IF use_weak_parent
                   THEN Append(r.made, <<"weak_parent", master>>)
                   ELSE r.made
       IN bones' = [bones EXCEPT
                    !.generated = TRUE,
                    !.mix_parent_bone = mstate.use_mix_parent,
                    !.reparent_bones = r.rb,
                    !.use_weak_parent = use_weak_parent,
                    !.weak_parent_bone = use_weak_parent,
                    !.made = made,
                    !.lengths = [i \in 1..Len(made) |->
                                    make_bone_length(mstate.size, made[i])]]
    /\ stage' = "parent_bones"
    /\ UNCHANGED <<mvars, node, master, ran, aborted, mirror, query, cache, names,
                   used_parents, reparent_requests, node_parent, rotation, mstate,
                   widget, built_log>>

\* the bone parents the loop over reparent_requests of parent_bones sets
ParentReparents(control) ==
    LET Step[i \in 0..Len(reparent_requests)] ==
            IF i = 0 THEN <<>>
            ELSE IF DictGet(bones.reparent_bones, reparent_requests[i]) # control
            THEN Append(Step[i - 1],
                        <<DictGet(bones.reparent_bones, reparent_requests[i]),
                          <<"output_bone", reparent_requests[i]>>>>)
            ELSE Step[i - 1]
    IN Step[Len(reparent_requests)]

\* ControlBoneNode.parent_bones of the master: parents lists the calls of
\* set_bone_parent, <<"output_bone", g>> being the output_bone of generator g
ParentBones ==
    /\ stage = "parent_bones"
    /\ ~aborted
    /\ LET control == <<"control", master>>
           first == IF mstate.use_mix_parent
                    THEN <<<<control, <<"mix_parent", master>>>>>>
                    ELSE <<<<control, <<"output_bone", mstate.node_parent_list[1]>>>>>>
           weak == IF bones.use_weak_parent
                   THEN <<<<<<"weak_parent", master>>,
                            <<"output_bone", node_parent[master]>>>>>>
                   ELSE <<>>
       IN bones' = [bones EXCEPT !.parented = TRUE,
                                 !.parents = first \o weak \o ParentReparents(control)]
    /\ stage' = "rig_bones"
    /\ UNCHANGED <<mvars, node, master, ran, aborted, mirror, query, cache, names,
                   used_parents, reparent_requests, node_parent, rotation, mstate,
                   widget, built_log>>

\* the constraints the loop over reparent_requests of rig_bones makes
RigReparents(control, reparent_source) ==
    LET Step[i \in 0..Len(reparent_requests)] ==
            IF i = 0 THEN <<>>
            ELSE IF DictGet(bones.reparent_bones, reparent_requests[i]) # control
            THEN Append(Step[i - 1],
                        <<DictGet(bones.reparent_bones, reparent_requests[i]),
                          "COPY_TRANSFORMS", <<reparent_source>>>>)
            ELSE Step[i - 1]
    IN Step[Len(reparent_requests)]

\* ControlBoneNode.rig_bones of the master: constraints lists the calls of
\* make_constraint as <<bone, type, targets>>; the extend_control_node_rig
\* hooks of the rigs add nothing here
RigBones ==
    /\ stage = "rig_bones"
    /\ ~aborted
    /\ LET control == <<"control", master>>
           weak_parent_bone == <<"weak_parent", master>>
           mix == IF mstate.use_mix_parent
                  THEN <<<<<<"mix_parent", master>>, "ARMATURE",
                           [i \in 1..Len(mstate.node_parent_list) |->
                               <<"output_bone", mstate.node_parent_list[i]>>]>>>>
                  ELSE <<>>
           weak == IF bones.use_weak_parent
                   THEN <<<<weak_parent_bone, "COPY_TRANSFORMS", <<control>>>>>>
                   ELSE <<>>
           reparent_source == IF bones.use_weak_parent
                              THEN weak_parent_bone ELSE control
       IN bones' = [bones EXCEPT
                       !.rigged = TRUE,
                       !.constraints = mix \o weak
                                       \o RigReparents(control, reparent_source)]
    /\ stage' = "generate_widgets"
    /\ UNCHANGED <<mvars, node, master, ran, aborted, mirror, query, cache, names,
                   used_parents, reparent_requests, node_parent, rotation, mstate,
                   widget, built_log>>

----------------------------------------------------------------------------
(* SpecBuild: one cluster of two control nodes and a position query, from *)
(* merge_done to generate_widgets                                         *)

BuildNodes ==
    [rig : {1}, layer : {ControlNodeLayer_FREE}, icon : {ControlNodeIcon_TWEAK},
     name_split : {[base |-> "a", side |-> -1, side_z |-> 0],
                   [base |-> "a", side |-> 1, side_z |-> 0],
                   [base |-> "b", side |-> -1, side_z |-> 0]},
     size : {1}, needs_parent : BOOLEAN, needs_reparent : BOOLEAN]

InitBuild ==
    /\ rigs = FlatRigs
    /\ call = NoCall
    /\ node \in [{1, 2} -> BuildNodes]
    /\ node[1].name_split.side = -1
    /\ master = 1
    /\ stage = "merge_done"
    /\ ran = {}
    /\ aborted = FALSE
    /\ mirror = [n \in {1, 2} |-> NoMirror]
    /\ query \in [{-1} -> [needs_reparent : BOOLEAN, rig_org : BOOLEAN]]
    /\ cache = <<>>
    /\ names = <<>>
    /\ used_parents = <<>>
    /\ reparent_requests = <<>>
    /\ node_parent = [c \in {1, 2, -1} |-> 0]
    /\ rotation = {}
    /\ mstate = NoMaster
    /\ bones = NoBones
    /\ widget = "none"
    /\ built_log = <<>>

NextBuild ==
    \/ \E n \in NodeIds : MergeDone(n)
    \/ \E n \in NodeIds : Initialize(n)
    \/ \E q \in DOMAIN query : QueryInitialize(q)
    \/ PrepareBones
    \/ GenerateBones
    \/ ParentBones
    \/ RigBones
    \/ GenerateWidgets

SpecBuild == InitBuild /\ [][NextBuild]_vars

\* the reparent bones generate_bones has made for parent p
ReparentBonesOf(p) ==
    {i \in 1..Len(bones.made) : bones.made[i] = <<"reparent", p>>}

\* the components that have requested a reparent bone for parent p
Requesters(p) ==
    {c \in Components : WantsReparent(c) /\ node_parent[c] = p}

\* requested parents are interned: equal to the master's primary parent
\* means identical to it
RequestsInterned ==
    (stage = "initialize" /\ node_parent[master] # 0) =>
        \A i \in 1..Len(reparent_requests) :
            GenEq(cache, <<>>, reparent_requests[i], node_parent[master])
                <=> reparent_requests[i] = node_parent[master]

\* C4 (as stated): once generate_bones has run, a node that requested a
\* reparent for a parent equal to the master's primary parent has caused no
\* reparent bone, and every other requested parent has exactly one reparent
\* bone, however many nodes requested it.
C4_ReparentBonePerParent ==
    /\ RequestsInterned
    /\ bones.generated =>
          \A c \in Components :
              WantsReparent(c) =>
                  Cardinality(ReparentBonesOf(node_parent[c])) =
                      IF node_parent[c] = node_parent[master] THEN 0 ELSE 1

\* C4 (amended): once generate_bones has run, a node that requested a reparent
\* for a parent equal to the master's primary parent has caused no reparent
\* bone provided the master has no mix parent (with a mix parent that request
\* gets one reparent bone too), and every other requested parent has exactly
\* one reparent bone, however many nodes requested it.
C4_ReparentBoneUnlessMix ==
    /\ RequestsInterned
    /\ bones.generated =>
          \A c \in Components :
              WantsReparent(c) =>
                  Cardinality(ReparentBonesOf(node_parent[c])) =
                      IF /\ node_parent[c] = node_parent[master]
                         /\ ~mstate.use_mix_parent
                      THEN 0 ELSE 1

\* the master requests its own primary parent, and the other node and the
\* query both request one other parent, which has one reparent bone
C4_Witness ==
    /\ bones.generated
    /\ ~mstate.use_mix_parent
    /\ WantsReparent(master)
    /\ ReparentBonesOf(node_parent[master]) = {}
    /\ \E p \in 1..Len(cache) :
          /\ p # node_parent[master]
          /\ Cardinality(Requesters(p)) = 2
          /\ Cardinality(ReparentBonesOf(p)) = 1

----------------------------------------------------------------------------
(* ControlBoneParentOffset: accumulation of contents *)

\* self.copy_local[target] when the key is there, else the new [0, [], []]
CopyLocalOf(self, target) ==
    IF target \in DOMAIN self.copy_local
    THEN self.copy_local[target]
    ELSE <<0, <<>>, <<>>>>

\* mutant: a fixed influence replaces the accumulated one
add_copy_local_location_replace(self, target, influence, influence_expr, influence_vars) ==
    LET old == CopyLocalOf(self, target)
        new == IF influence_expr # <<>>
               THEN <<old[1], Append(old[2], <<influence_expr, influence_vars>>), old[3]>>
               ELSE IF influence[1] = "lazy"
               THEN <<old[1], old[2], Append(old[3], influence)>>
               ELSE <<influence[2], old[2], old[3]>>
    IN [self EXCEPT !.copy_local =
           [t \in (DOMAIN self.copy_local) \cup {target} |->
               IF t = target THEN new ELSE self.copy_local[t]]]

\* ControlBoneParentOffset.add_copy_local_location; influence is <<"num", x>>
\* for the number x and <<"lazy", f>> for the callable f; an expression is the
\* sequence of its tokens, empty for None and for the empty string
add_copy_local_location(self, target, influence, influence_expr, influence_vars) ==
    LET old == CopyLocalOf(self, target)
        new == IF influence_expr # <<>>
               THEN <<old[1], Append(old[2], <<influence_expr, influence_vars>>), old[3]>>
               ELSE IF influence[1] = "lazy"
               THEN <<old[1], old[2], Append(old[3], influence)>>
               ELSE <<old[1] + influence[2], old[2], old[3]>>
    IN [self EXCEPT !.copy_local =
           [t \in (DOMAIN self.copy_local) \cup {target} |->
               IF t = target THEN new ELSE self.copy_local[t]]]

\* add_copy_local_location with the arguments of the call a
ApplyAdd(self, a) ==
    add_copy_local_location(self, a.target, a.influence, a.influence_expr,
                            a.influence_vars)

----------------------------------------------------------------------------
(* SpecAccum: two add_copy_local_location calls on equal Offsets, in the *)
(* two orders                                                            *)

Targets == {"t1", "t2"}

\* the calls: a fixed influence, an influence callback, an influence
\* expression with its variables
AddCalls ==
    [target : Targets, influence : {<<"num", 1>>, <<"num", 2>>},
     influence_expr : {<<>>},
     influence_vars : {<<>>}]
    \cup [target : Targets, influence : {<<"lazy", "f">>, <<"lazy", "g">>},
          influence_expr : {<<>>}, influence_vars : {<<>>}]
    \cup [target : Targets, influence : {<<"num", 1>>},
          influence_expr : {<<<<"var", <<"x">>>>>>,
                            <<<<"var", <<"y">>>>, <<"txt", <<"*2">>>>>>},
          influence_vars : {<<<<<<"x">>, "d1">>, <<<<"y">>, "d2">>>>}]

\* the contents of the Offset before the two calls
AccumContents ==
    {[copy_local |-> EmptyDict, add_local |-> EmptyDict,
      add_orientations |-> EmptyDict, limit_distance |-> <<>>],
     ContentA, ContentB}

InitAccum ==
    /\ rigs = FlatRigs
    /\ call = NoCall
    /\ IdleCluster

\* both orders of the two calls, on two Offsets around the same parent
CallAddCopyLocalLocation ==
    /\ call = NoCall
    /\ \E base \in AccumContents, first \in AddCalls, second \in AddCalls :
         LET self == ControlBoneParentOffset(1, base) IN
         /\ cache' = <<ControlBoneParentOrg("o1"),
                       ApplyAdd(ApplyAdd(self, first), second),
                       ApplyAdd(ApplyAdd(self, second), first)>>
         /\ call' = [op |-> "add_copy_local_location",
                     first |-> first, second |-> second]
    /\ UNCHANGED <<rigs, cvars, query, names, used_parents, reparent_requests,
                   node_parent, rotation, mstate, bones, widget, built_log>>

NextAccum == CallAddCopyLocalLocation

SpecAccum == InitAccum /\ [][NextAccum]_vars

AddCalled == call.op = "add_copy_local_location"

\* the elements of a list with their numbers of occurrences
BagOfSeq(q) ==
    [x \in {q[i] : i \in 1..Len(q)} |-> Cardinality({i \in 1..Len(q) : q[i] = x})]

\* same fixed influence, same drivers and same callbacks for every target
SameAccumulated(a, b) ==
    /\ DOMAIN a.copy_local = DOMAIN b.copy_local
    /\ \A t \in DOMAIN a.copy_local :
          /\ a.copy_local[t][1] = b.copy_local[t][1]
          /\ BagOfSeq(a.copy_local[t][2]) = BagOfSeq(b.copy_local[t][2])
          /\ BagOfSeq(a.copy_local[t][3]) = BagOfSeq(b.copy_local[t][3])

AddKind(a) ==
    IF a.influence_expr # <<>> THEN "expr"
    ELSE IF a.influence[1] = "lazy" THEN "lazy" ELSE "fixed"

\* the two calls append different items to the same list of the same target
OrderShows(a, b) ==
    /\ a.target = b.target
    /\ AddKind(a) = AddKind(b)
    /\ AddKind(a) # "fixed"
    /\ a # b

----------------------------------------------------------------------------
(* compile_driver.  An expression is the sequence of its tokens:           *)
(* <<"var", name>> for the placeholder $name and <<"txt", t>> for text.    *)
(* A name is <<base>> or <<base, i, ...>> for base_i...; a varset and the  *)
(* merged variables are dicts, sequences of <<name, descriptor>> items.    *)

\* the names of the placeholders of expr
Placeholders(expr) == {expr[i][2] : i \in {j \in 1..Len(expr) : expr[j][1] = "var"}}

DictKeys(d) == {d[i][1] : i \in 1..Len(d)}

\* '%s_%d' % (name, i) for the first i from 1 that gives a name not in variables
FirstFreeName(variables, name) ==
    LET i == CHOOSE i \in 1..(Len(variables) + 1) :
                 /\ Append(name, i) \notin DictKeys(variables)
                 /\ \A j \in 1..(i - 1) : Append(name, j) \in DictKeys(variables)
    IN Append(name, i)

\* mutant: a used variable always gets a slot of its own
MergeVariable_nosearch(st, expr, name, desc) ==
    IF name \notin Placeholders(expr) THEN st
    ELSE LET new_name == IF name \in DictKeys(st.variables)
                         THEN FirstFreeName(st.variables, name) ELSE name
         IN [variables |-> Append(st.variables, <<new_name, desc>>),
             varmap |-> DictPut(st.varmap, name, new_name)]

\* one round of the loop "for name, desc in varset.items()"; st holds
\* variables and varmap
MergeVariable(st, expr, name, desc) ==
    IF name \notin Placeholders(expr) THEN st
    ELSE IF \E i \in 1..Len(st.variables) : st.variables[i][2] = desc
    THEN LET i == CHOOSE i \in 1..Len(st.variables) :
                     /\ st.variables[i][2] = desc
                     /\ \A j \in 1..(i - 1) : st.variables[j][2] # desc
         IN [st EXCEPT !.varmap = DictPut(@, name, st.variables[i][1])]
    ELSE LET new_name == IF name \in DictKeys(st.variables)
                         THEN FirstFreeName(st.variables, name) ELSE name
         IN [variables |-> Append(st.variables, <<new_name, desc>>),
             varmap |-> DictPut(st.varmap, name, new_name)]

\* template.substitute(varmap)
Substitute(expr, varmap) ==
    [i \in 1..Len(expr) |->
        IF expr[i][1] = "var" THEN <<"var", DictGet(varmap, expr[i][2])>> ELSE expr[i]]

\* ControlBoneParentOffset.compile_driver; raised is what raise_error leaves
compile_driver(items) ==
    LET Merged[i \in 0..Len(items)] ==
            \* variables after item i, and the varmap of item i
            IF i = 0 THEN [variables |-> <<>>, varmap |-> <<>>]
            ELSE LET Round[n \in 0..Len(items[i][2])] ==
                         IF n = 0
                         THEN [variables |-> Merged[i - 1].variables,
                               varmap |-> <<>>]
                         ELSE MergeVariable(Round[n - 1], items[i][1],
                                            items[i][2][n][1], items[i][2][n][2])
                 IN Round[Len(items[i][2])]
        raised == \E i \in 1..Len(items) :
                      ~(Placeholders(items[i][1]) \subseteq DictKeys(items[i][2]))
        expressions == [i \in 1..Len(items) |->
                           Substitute(items[i][1], Merged[i].varmap)]
    IN IF raised
       THEN [raised |-> TRUE, joined |-> FALSE, expressions |-> <<>>,
             variables |-> <<>>]
       ELSE [raised |-> FALSE, joined |-> Len(expressions) > 1,
             expressions |-> expressions,
             variables |-> Merged[Len(items)].variables]

----------------------------------------------------------------------------
(* SpecDriver: compile_driver on lists of one or two items *)

VarNames == {<<"x">>, <<"y">>, <<"x", 1>>}

Descriptors == {"d1", "d2", "d3"}

\* dicts of at most two variables
VarSets ==
    {<<>>}
    \cup {<<<<n, v>>>> : n \in VarNames, v \in Descriptors}
    \cup {d \in {<<<<n, v>>, <<m, w>>>> :
                      n \in VarNames, m \in VarNames,
                      v \in Descriptors, w \in Descriptors} : d[1][1] # d[2][1]}

\* expressions of at most two placeholders
Expressions ==
    {<<<<"txt", <<"1">>>>>>}
    \cup {<<<<"var", n>>>> : n \in VarNames}
    \cup {<<<<"var", n>>, <<"txt", <<"*">>>>, <<"var", m>>>> :
             n \in {<<"x">>}, m \in {<<"y">>, <<"x", 1>>}}

DriverItems == Expressions \X VarSets

\* a second item declares one variable
SecondItems ==
    {it \in DriverItems : Len(it[2]) = 1}

DriverItemLists ==
    {<<a>> : a \in DriverItems} \cup {<<a, b>> : a \in DriverItems, b \in SecondItems}

InitDriver ==
    /\ rigs = FlatRigs
    /\ call = NoCall
    /\ IdleCluster

CallCompileDriver ==
    /\ call = NoCall
    /\ \E items \in DriverItemLists :
         call' = [op |-> "compile_driver", items |-> items,
                  result |-> compile_driver(items)]
    /\ UNCHANGED <<rigs, cvars, bvars>>

NextDriver == CallCompileDriver

SpecDriver == InitDriver /\ [][NextDriver]_vars

DriverCompiled == call.op = "compile_driver" /\ ~call.result.raised

\* the descriptor of the placeholder at position k of expression i of the
\* input, and of the output
InputDescriptor(i, k) == DictGet(call.items[i][2], call.items[i][1][k][2])

OutputDescriptor(i, k) ==
    DictGet(call.result.variables, call.result.expressions[i][k][2])

VarPositions(i) ==
    {k \in 1..Len(call.items[i][1]) : call.items[i][1][k][1] = "var"}

\* C13: compile_driver on a non-empty list of items: placeholders whose
\* variables have equal descriptors get one merged variable name in the
\* output; a used variable whose name is taken by a merged variable of another
\* descriptor gets the name with the first free numeric suffix; the merged
\* variables never hold two entries with equal descriptors.
C13_DriverVariablesMerged ==
    DriverCompiled =>
        LET out == call.result IN
        /\ Len(out.expressions) = Len(call.items)
        /\ \A i \in 1..Len(call.items) : \A k \in VarPositions(i) :
              /\ out.expressions[i][k][1] = "var"
              /\ OutputDescriptor(i, k) = InputDescriptor(i, k)
              /\ \A j \in 1..Len(call.items) : \A m \in VarPositions(j) :
                    InputDescriptor(j, m) = InputDescriptor(i, k)
                        => out.expressions[j][m] = out.expressions[i][k]
              /\ LET name == call.items[i][1][k][2]
                     got == out.expressions[i][k][2]
                 IN \/ got = name
                    \/ \E j \in 1..i : \E m \in VarPositions(j) :
                          /\ got = call.items[j][1][m][2]
                          /\ InputDescriptor(j, m) = InputDescriptor(i, k)
                    \/ /\ name \in DictKeys(out.variables)
                       /\ DictGet(out.variables, name) # InputDescriptor(i, k)
                       /\ \E n \in 1..Len(out.variables) :
                             /\ got = Append(name, n)
                             /\ \A q \in 1..(n - 1) :
                                   Append(name, q) \in DictKeys(out.variables)
        /\ \A a \in 1..Len(out.variables), b \in 1..Len(out.variables) :
              (out.variables[a][2] = out.variables[b][2]
                  \/ out.variables[a][1] = out.variables[b][1]) => a = b

\* x*x_1 with two descriptors, then x with a third: x_1 is taken, x becomes x_2
C13_Witness ==
    /\ DriverCompiled
    /\ Len(call.items) = 2
    /\ call.items[2][1] = <<<<"var", <<"x">>>>>>
    /\ call.result.expressions[2] = <<<<"var", <<"x", 2>>>>>>
    /\ Len(call.result.variables) = 3

----------------------------------------------------------------------------
(* ControlBoneParentOffset: the other add_* methods and the bone stages *)

\* ControlBoneParentOffset.add_location_driver; the orientation stands for
\* its rounded key, index is 1..3
add_location_driver(self, orientation, index, expression, variables) ==
    LET old == IF orientation \in DOMAIN self.add_local
               THEN self.add_local[orientation]
               ELSE <<<<>>, <<>>, <<>>>>
        new == [old EXCEPT ![index] = Append(@, <<expression, variables>>)]
    IN [self EXCEPT
           !.add_orientations =
               IF orientation \in DOMAIN self.add_local THEN @
               ELSE [k \in (DOMAIN @) \cup {orientation} |->
                        IF k = orientation THEN orientation ELSE @[k]],
           !.add_local =
               [k \in (DOMAIN @) \cup {orientation} |->
                   IF k = orientation THEN new ELSE @[k]]]

\* ControlBoneParentOffset.add_limit_distance
add_limit_distance(self, target) ==
    [self EXCEPT !.limit_distance = Append(@, target)]

\* force_lazy of an influence callback
force_lazy(f) == IF f[2] = "f" THEN 2 ELSE 3

\* sum(map(force_lazy, lazyinf))
SumLazy(lazyinf) ==
    LET Sum[i \in 0..Len(lazyinf)] ==
            IF i = 0 THEN 0 ELSE Sum[i - 1] + force_lazy(lazyinf[i])
    IN Sum[Len(lazyinf)]

\* the keys of a dict in the order of iteration
RECURSIVE KeysOf(_)
KeysOf(S) ==
    IF S = {} THEN <<>>
    ELSE LET x == CHOOSE x \in S : TRUE IN <<x>> \o KeysOf(S \ {x})

\* output_bone of Org, Armature, a weak layer and Offset
RECURSIVE output_bone(_, _)
output_bone(c, g) ==
    CASE c[g].kind = "Org" -> <<"org", 0, c[g].key>>
      [] c[g].kind = "Armature" -> <<"arm", g, "">>
      [] c[g].kind = "Weak" -> <<"weak", g, "">>
      [] c[g].kind = "Offset" ->
            IF c[g].made.mch_bones # <<>>
            THEN c[g].made.mch_bones[Len(c[g].made.mch_bones)]
            ELSE output_bone(c, c[g].parent)

\* mutant: the bone of the wrapped parent is never reused
OffsetGenerateBones_noreuse(c, g, near) ==
    LET self == c[g]
        keys == KeysOf(DOMAIN self.add_local)
    IN IF self.copy_local = EmptyDict /\ self.add_local = EmptyDict
          /\ self.limit_distance = <<>>
       THEN [self.made EXCEPT !.generated = TRUE, !.near = near]
       ELSE IF self.add_local # EmptyDict
       THEN [self.made EXCEPT !.generated = TRUE, !.near = near,
                              !.mch_bones = [i \in 1..Len(keys) |->
                                                <<"poffset", g, keys[i]>>]]
       ELSE [self.made EXCEPT !.generated = TRUE, !.near = near,
                              !.mch_bones = <<<<"poffset", g, "">>>>]

\* ControlBoneParentOffset.generate_bones: the fields it assigns; near tells
\* whether the head of the parent's output bone is within 1e-5 of node.point
OffsetGenerateBones(c, g, near) ==
    LET self == c[g]
        keys == KeysOf(DOMAIN self.add_local)
    IN IF self.copy_local = EmptyDict /\ self.add_local = EmptyDict
          /\ self.limit_distance = <<>>
       THEN [self.made EXCEPT !.generated = TRUE, !.near = near]
       ELSE IF self.add_local # EmptyDict
       THEN [self.made EXCEPT !.generated = TRUE, !.near = near,
                              !.mch_bones = [i \in 1..Len(keys) |->
                                                <<"poffset", g, keys[i]>>]]
       ELSE IF ~c[self.parent].is_parent_frozen /\ near
       THEN [self.made EXCEPT !.generated = TRUE, !.near = near,
                              !.reuse_mch = TRUE,
                              !.mch_bones = <<output_bone(c, self.parent)>>]
       ELSE [self.made EXCEPT !.generated = TRUE, !.near = near,
                              !.mch_bones = <<<<"poffset", g, "">>>>]

\* str(influence) as an expression, with no variables
InfluenceItem(influence) == <<<<<<"txt", <<ToString(influence)>>>>>>, <<>>>>

\* the drivers list of target t in rig_bones, after the append
DriversOf(self, t) ==
    LET val == self.copy_local[t]
        influence == val[1] + SumLazy(val[3])
    IN IF val[2] # <<>> /\ influence > 0
       THEN Append(val[2], InfluenceItem(influence))
       ELSE val[2]

\* mutant: the influence callbacks are left out of the influence
OffsetRigBones_nolazy(c, g) ==
    LET self == c[g]
        mch == self.made.mch_bones
        targets == KeysOf(DOMAIN self.copy_local)
    IN [self EXCEPT
           !.made.rigged = TRUE,
           !.made.constraints =
               [i \in 1..Len(targets) |->
                   [bone |-> mch[1], type |-> "COPY_LOCATION",
                    target |-> targets[i],
                    influence |-> self.copy_local[targets[i]][1]]]]

\* ControlBoneParentOffset.rig_bones
OffsetRigBones(c, g) ==
    LET self == c[g]
        mch == self.made.mch_bones
        targets == KeysOf(DOMAIN self.copy_local)
        driven == SelectSeq(targets, LAMBDA t : self.copy_local[t][2] # <<>>)
        keys == KeysOf(DOMAIN self.add_local)
        slots == SelectSeq([n \in 1..(3 * Len(keys)) |->
                               <<((n - 1) \div 3) + 1, ((n - 1) % 3) + 1>>],
                           LAMBDA sl : self.add_local[keys[sl[1]]][sl[2]] # <<>>)
    IN [self EXCEPT
           !.copy_local =
               [t \in DOMAIN @ |-> <<@[t][1], DriversOf(self, t), @[t][3]>>],
           !.made.rigged = TRUE,
           !.made.constraints =
               [i \in 1..Len(targets) |->
                   [bone |-> mch[1], type |-> "COPY_LOCATION",
                    target |-> targets[i],
                    influence |-> self.copy_local[targets[i]][1]
                                  + SumLazy(self.copy_local[targets[i]][3])]]
               \o [i \in 1..Len(self.limit_distance) |->
                      [bone |-> mch[Len(mch)], type |-> "LIMIT_DISTANCE",
                       target |-> self.limit_distance[i], influence |-> 1]],
           !.made.drivers =
               [i \in 1..Len(driven) |->
                   [bone |-> mch[1], on |-> <<"COPY_LOCATION", driven[i]>>,
                    driver |-> compile_driver(DriversOf(self, driven[i]))]]
               \o [i \in 1..Len(slots) |->
                      [bone |-> mch[slots[i][1]],
                       on |-> <<"location", keys[slots[i][1]]>>,
                       driver |-> compile_driver(
                                      self.add_local[keys[slots[i][1]]][slots[i][2]])]]]

\* the enabled generators whose bone stage methods run
EnabledParents == {g \in 1..Len(cache) : cache[g].enabled}

\* generate_bones of an enabled parent generator, after that of its wrapped
\* parent
ParentGenerateBones(g) ==
    /\ stage = "generate_bones"
    /\ g \in EnabledParents
    /\ ~cache[g].made.generated
    /\ cache[g].parent \in EnabledParents => cache[cache[g].parent].made.generated
    /\ \E near \in BOOLEAN :
         cache' = [cache EXCEPT ![g].made =
                      IF cache[g].kind = "Offset"
                      THEN OffsetGenerateBones(cache, g, near)
                      ELSE [@ EXCEPT !.generated = TRUE,
                                     !.mch_bones =
                                         IF cache[g].kind = "Armature"
                                         THEN <<output_bone(cache, g)>> ELSE @]]
    /\ stage' = IF \A h \in EnabledParents \ {g} : cache[h].made.generated
                THEN "rig_bones" ELSE stage
    /\ UNCHANGED <<mvars, node, master, ran, aborted, mirror, query, names,
                   used_parents, reparent_requests, node_parent, rotation,
                   mstate, bones, widget, built_log>>

\* rig_bones of an enabled parent generator
ParentRigBones(g) ==
    /\ stage = "rig_bones"
    /\ g \in EnabledParents
    /\ ~cache[g].made.rigged
    /\ cache' = [cache EXCEPT ![g] =
                    IF cache[g].kind = "Offset"
                    THEN OffsetRigBones(cache, g)
                    ELSE [@ EXCEPT !.made.rigged = TRUE]]
    /\ stage' = IF \A h \in EnabledParents \ {g} : cache[h].made.rigged
                THEN "done" ELSE stage
    /\ UNCHANGED <<mvars, node, master, ran, aborted, mirror, query, names,
                   used_parents, reparent_requests, node_parent, rotation,
                   mstate, bones, widget, built_log>>

----------------------------------------------------------------------------
(* SpecOffset: a chain of three Offsets around a bottom generator, from *)
(* prepare_bones to rig_bones                                           *)

NoContents ==
    [copy_local |-> EmptyDict, add_local |-> EmptyDict,
     add_orientations |-> EmptyDict, limit_distance |-> <<>>]

ExprX == <<<<"var", <<"x">>>>>>

VarsX == <<<<<<"x">>, "d1">>>>

\* the contents the add_* calls of the rigs give to an Offset
OffsetContents ==
    LET new == ControlBoneParentOffset(0, NoContents) IN
    {ContentsOf(g) : g \in
        {new,
         add_copy_local_location(new, "t1", <<"num", 1>>, <<>>, <<>>),
         add_copy_local_location(
             add_copy_local_location(new, "t1", <<"lazy", "f">>, <<>>, <<>>),
             "t2", <<"num", 1>>, ExprX, VarsX),
         add_copy_local_location(
             add_limit_distance(new, "t3"), "t1", <<"num", 0>>, ExprX, VarsX),
         add_limit_distance(new, "t3"),
         add_location_driver(new, "o1", 1, ExprX, VarsX),
         add_location_driver(
             add_location_driver(new, "o1", 2, ExprX, VarsX),
             "o2", 1, ExprX, VarsX)}}

\* the chain as build_parent_for_node left it: the outermost Offset is the
\* parent in use, an inner Offset is frozen when another chain shares it
InitOffset ==
    /\ rigs = FlatRigs
    /\ call = NoCall
    /\ node = <<>>
    /\ master = 0
    /\ ran = {}
    /\ aborted = FALSE
    /\ mirror = <<>>
    /\ query = <<>>
    /\ names = <<>>
    /\ reparent_requests = <<>>
    /\ node_parent = <<>>
    /\ rotation = {}
    /\ mstate = NoMaster
    /\ bones = NoBones
    /\ widget = "none"
    /\ stage = "prepare_bones"
    /\ used_parents = <<1>>
    /\ \E c1 \in OffsetContents, c2 \in OffsetContents, c3 \in OffsetContents,
          f2 \in BOOLEAN, f3 \in BOOLEAN, bottom \in Bottoms :
         cache = <<[ControlBoneParentOffset(2, c1) EXCEPT !.is_parent_frozen = TRUE],
                   [ControlBoneParentOffset(3, c2) EXCEPT !.is_parent_frozen = f2],
                   [ControlBoneParentOffset(4, c3) EXCEPT !.is_parent_frozen = f3],
                   bottom>>
    /\ built_log = <<cache>>

NextOffset ==
    \/ PrepareBones
    \/ \E g \in 1..4 : ParentGenerateBones(g)
    \/ \E g \in 1..4 : ParentRigBones(g)

SpecOffset == InitOffset /\ [][NextOffset]_vars

\* the chain before prepare_bones
Original == built_log[1]

\* the Offsets whose contents the Offset g holds after the collapse, g first
RECURSIVE MemberSeq(_, _)
MemberSeq(from, to) ==
    IF from = to \/ from = 0 THEN <<>>
    ELSE <<from>> \o MemberSeq(Original[from].parent, to)

Members(g) == <<g>> \o MemberSeq(Original[g].parent, cache[g].parent)

Offsets == {g \in 1..Len(cache) : cache[g].kind = "Offset"}

ContributedTargets(g) ==
    UNION {DOMAIN Original[Members(g)[i]].copy_local : i \in 1..Len(Members(g))}

\* the fixed influences and the resolved callbacks the members contribute
TotalInfluence(g, t) ==
    LET ms == Members(g)
        Sum[i \in 0..Len(ms)] ==
            IF i = 0 THEN 0
            ELSE Sum[i - 1]
                 + CopyLocalOf(Original[ms[i]], t)[1]
                 + SumLazy(CopyLocalOf(Original[ms[i]], t)[3])
    IN Sum[Len(ms)]

CopyConstraints(g) ==
    {i \in 1..Len(cache[g].made.constraints) :
        cache[g].made.constraints[i].type = "COPY_LOCATION"}

InfluenceDrivers(g, t) ==
    {d \in 1..Len(cache[g].made.drivers) :
        cache[g].made.drivers[d].on = <<"COPY_LOCATION", t>>}

\* C12: after rig_bones an enabled Offset has exactly one copy-location
\* constraint per target contributed to it, no mechanism bone has two
\* copy-location constraints for one target, the influence of the constraint
\* is the sum of the fixed influences and resolved callbacks contributed for
\* the target, and at most one driver is on it
C12_OneConstraintPerTarget ==
    /\ \A g \in Offsets :
         cache[g].made.rigged =>
           LET cons == cache[g].made.constraints IN
           /\ \A t \in ContributedTargets(g) :
                Cardinality({i \in CopyConstraints(g) : cons[i].target = t}) = 1
           /\ \A i \in CopyConstraints(g) :
                /\ cons[i].target \in ContributedTargets(g)
                /\ cons[i].influence = TotalInfluence(g, cons[i].target)
                /\ Cardinality(InfluenceDrivers(g, cons[i].target)) <= 1
    /\ \A g \in Offsets, h \in Offsets :
         \A i \in CopyConstraints(g), j \in CopyConstraints(h) :
            /\ cache[g].made.constraints[i].bone = cache[h].made.constraints[j].bone
            /\ cache[g].made.constraints[i].target = cache[h].made.constraints[j].target
            => g = h /\ i = j

\* a rigged Offset that collapsed a wrapped Offset and reuses the bone of its
\* parent, with a driven constraint fed by a callback and a fixed influence
C12_Witness ==
    /\ cache[1].made.rigged
    /\ Len(Members(1)) >= 2
    /\ cache[1].made.reuse_mch
    /\ \E i \in CopyConstraints(1) :
         /\ cache[1].made.constraints[i].influence = 3
         /\ cache[1].made.constraints[i].target = "t1"
         /\ InfluenceDrivers(1, "t1") # {}

\* the contents of the members of g joined from the innermost outwards
JoinedContents(g) ==
    LET ms == Members(g)
        n == Len(ms)
        At(i) == Original[ms[n + 1 - i]]
        Fixed[i \in 0..n, t \in Targets] ==
            IF i = 0 THEN 0 ELSE Fixed[i - 1, t] + CopyLocalOf(At(i), t)[1]
        Exprs[i \in 0..n, t \in Targets] ==
            IF i = 0 THEN <<>> ELSE Exprs[i - 1, t] \o CopyLocalOf(At(i), t)[2]
        Cbs[i \in 0..n, t \in Targets] ==
            IF i = 0 THEN <<>> ELSE Cbs[i - 1, t] \o CopyLocalOf(At(i), t)[3]
        Limits[i \in 0..n] ==
            IF i = 0 THEN <<>> ELSE Limits[i - 1] \o At(i).limit_distance
        keys == UNION {DOMAIN Original[ms[i]].add_local : i \in 1..n}
        Local[i \in 0..n, k \in keys, x \in 1..3] ==
            IF i = 0 THEN <<>>
            ELSE Local[i - 1, k, x]
                 \o (IF k \in DOMAIN At(i).add_local THEN At(i).add_local[k][x]
                     ELSE <<>>)
    IN [copy_local |-> [t \in ContributedTargets(g) |->
                           <<Fixed[n, t], Exprs[n, t], Cbs[n, t]>>],
        add_local |-> [k \in keys |-> [x \in 1..3 |-> Local[n, k, x]]],
        limit_distance |-> Limits[n]]

\* C16: when enable_component of an Offset has returned, its wrapped parent
\* is not an un-frozen Offset, the Offsets collapsed into it are not enabled,
\* the remaining wrapped parent is enabled, and its contents are those of the
\* original chain, joined per target from the innermost Offset outwards
C16_CollapseThenEnable ==
    stage = "generate_bones" =>
      \A g \in Offsets :
        cache[g].enabled =>
          LET p == cache[g].parent IN
          /\ ~(cache[p].kind = "Offset" /\ ~cache[p].is_parent_frozen)
          /\ \A i \in 2..Len(Members(g)) :
                /\ ~cache[Members(g)[i]].enabled
                /\ Original[Members(g)[i]].kind = "Offset"
                /\ ~Original[Members(g)[i]].is_parent_frozen
          /\ cache[p].kind # "Org" => cache[p].enabled
          /\ cache[g].copy_local = JoinedContents(g).copy_local
          /\ cache[g].add_local = JoinedContents(g).add_local
          /\ cache[g].limit_distance = JoinedContents(g).limit_distance

\* an Offset that collapsed two wrapped Offsets, two of the three
\* contributing to the same target
C16_Witness ==
    /\ stage = "generate_bones"
    /\ cache[1].enabled
    /\ Len(Members(1)) = 3
    /\ \E i \in 1..3, j \in 1..3 :
         /\ i # j
         /\ "t1" \in DOMAIN Original[i].copy_local
         /\ "t1" \in DOMAIN Original[j].copy_local
         /\ Original[i].copy_local # Original[j].copy_local

HasContent(g) ==
    \/ cache[g].copy_local # EmptyDict
    \/ cache[g].add_local # EmptyDict
    \/ cache[g].limit_distance # <<>>

\* the bones generate_bones of g has made
NewBones(g) ==
    {cache[g].made.mch_bones[i] : i \in 1..Len(cache[g].made.mch_bones)}
    \cap {<<"poffset", g, k>> : k \in {"", "o1", "o2"}}

\* near: the head of the parent's output bone is within 1e-5 of node.point
MayReuse(g) == ~cache[cache[g].parent].is_parent_frozen /\ cache[g].made.near

\* C19: generate_bones of an Offset makes one bone per orientation key when
\* it has location drivers; otherwise, with copy-location or limit-distance
\* content, none when the wrapped parent is not frozen and its output bone is
\* at the node's point, that bone being the output, and exactly one in every
\* other case; with no content it makes none and its output bone is that of
\* the wrapped parent
C19_OffsetBones ==
    \A g \in Offsets :
      cache[g].made.generated =>
        LET mch == cache[g].made.mch_bones
            parent_output == output_bone(cache, cache[g].parent) IN
        /\ cache[g].add_local # EmptyDict =>
              /\ Cardinality(NewBones(g)) = Cardinality(DOMAIN cache[g].add_local)
              /\ Len(mch) = Cardinality(NewBones(g))
        /\ cache[g].add_local = EmptyDict /\ HasContent(g) /\ MayReuse(g) =>
              /\ NewBones(g) = {}
              /\ output_bone(cache, g) = parent_output
        /\ cache[g].add_local = EmptyDict /\ HasContent(g) /\ ~MayReuse(g) =>
              /\ Cardinality(NewBones(g)) = 1
              /\ mch = <<output_bone(cache, g)>>
              /\ output_bone(cache, g) \in NewBones(g)
        /\ ~HasContent(g) =>
              /\ NewBones(g) = {}
              /\ mch = <<>>
              /\ output_bone(cache, g) = parent_output

\* an Offset reusing the bone of its Armature parent, under an Offset with
\* one bone per orientation key
C19_Witness ==
    /\ cache[1].made.generated
    /\ Cardinality(NewBones(1)) = 2
    /\ cache[cache[1].parent].kind = "Offset"
    /\ cache[cache[1].parent].made.generated
    /\ cache[cache[1].parent].made.reuse_mch
    /\ NewBones(cache[1].parent) = {}

----------------------------------------------------------------------------
(* Claims on the merge predicates of query nodes and on is_better_cluster *)

\* C15: ControlQueryNode.can_merge_into is true for every candidate, and
\* get_merge_priority ranks candidates by layer alone: with
\* find_highest_layer the candidate of the higher layer gets the strictly
\* higher priority, without it the candidate of the lower layer does
C15_QueryRanksByLayer ==
    /\ call.op = "query_can_merge_into" => call.result
    /\ call.op = "query_get_merge_priority" =>
         /\ call.other.layer = call.another.layer =>
               call.result = call.result_another
         /\ call.self.find_highest_layer /\ call.other.layer > call.another.layer =>
               call.result > call.result_another
         /\ ~call.self.find_highest_layer /\ call.other.layer < call.another.layer =>
               call.result > call.result_another

\* a query for the lowest layer preferring a FREE candidate to a TWEAK one
C15_Witness ==
    /\ call.op = "query_get_merge_priority"
    /\ ~call.self.find_highest_layer
    /\ call.other.layer = ControlNodeLayer_FREE
    /\ call.another.layer = ControlNodeLayer_TWEAK
    /\ call.result > call.result_another

\* C20: is_better_cluster is asymmetric and irreflexive: never both
\* a.is_better_cluster(b) and b.is_better_cluster(a), and never
\* a.is_better_cluster(a)
C20_StrictPreference ==
    call.op = "is_better_cluster" =>
        /\ ~(call.result /\ call.converse)
        /\ call.self = call.other => ~call.result

----------------------------------------------------------------------------
(* Claims on the build stages of the cluster *)

\* a stage method running on the master
MasterStep ==
    \/ Initialize(master)
    \/ PrepareBones
    \/ GenerateBones
    \/ ParentBones
    \/ RigBones
    \/ GenerateWidgets

\* initialize running on a component other than the master
OtherInitialize ==
    \/ \E n \in NodeIds \ {master} : Initialize(n)
    \/ \E q \in DOMAIN query : QueryInitialize(q)

\* parent cache, reparent_requests, used_parents or bones of the master change
MasterStateChanged ==
    \/ cache' # cache
    \/ reparent_requests' # reparent_requests
    \/ used_parents' # used_parents
    \/ bones' # bones

\* some attribute of the non-master sibling n changes
SiblingChanged(n) ==
    \/ node'[n] # node[n]
    \/ mirror'[n] # mirror[n]
    \/ node_parent'[n] # node_parent[n]
    \/ (n \in rotation') # (n \in rotation)

AfterMerge == stage # "merge_done"

MasterMirrorSiblings ==
    {mirror[master].mirror_siblings[i][2] :
        i \in 1..Len(mirror[master].mirror_siblings)}

\* C17: the master's initialize sets use_mix_parent iff the parent of some
\* mirror sibling differs from the master's own; otherwise node_parent_list
\* holds one generator, the master's parent with the weak layers stripped,
\* generate_bones makes no mix-parent bone and parent_bones parents the
\* control bone to the output bone of that generator
C17_MixParentIffDifferent ==
    mstate.initialized =>
        /\ mstate.use_mix_parent <=>
              \E c \in MasterMirrorSiblings : node_parent[c] # node_parent[master]
        /\ ~mstate.use_mix_parent =>
              /\ mstate.node_parent_list = <<strip(cache, node_parent[master])>>
              /\ bones.generated =>
                    /\ ~bones.mix_parent_bone
                    /\ \A i \in 1..Len(bones.made) : bones.made[i][1] # "mix_parent"
              /\ bones.parented =>
                    bones.parents[1] =
                        <<<<"control", master>>,
                          <<"output_bone", strip(cache, node_parent[master])>>>>
        /\ mstate.use_mix_parent /\ bones.parented =>
              bones.parents[1] = <<<<"control", master>>, <<"mix_parent", master>>>>

\* a master with a mirror sibling of the same parent, a weak layer, whose
\* control bone is parented to the output of the generator under the layer
C17_Witness ==
    /\ bones.parented
    /\ ~mstate.use_mix_parent
    /\ Cardinality(MasterMirrorSiblings) = 2
    /\ cache[node_parent[master]].kind = "Weak"
    /\ strip(cache, node_parent[master]) # node_parent[master]

WeakBones == {i \in 1..Len(bones.made) : bones.made[i][1] = "weak_parent"}

ControlBones == {i \in 1..Len(bones.made) : bones.made[i][1] = "control"}

RequestedWeak ==
    \E i \in 1..Len(reparent_requests) : cache[reparent_requests[i]].kind = "Weak"

\* C18 (as stated): generate_bones makes one weak-parent bone, of the size of
\* the control bone, if some requested parent is a weak layer, and none
\* otherwise
C18_WeakBoneIfRequested ==
    bones.generated =>
        /\ Cardinality(WeakBones) = IF RequestedWeak THEN 1 ELSE 0
        /\ \A i \in WeakBones, j \in ControlBones :
              bones.lengths[i] = bones.lengths[j]

\* C18 (amended): generate_bones makes one weak-parent bone, of half the size
\* of the control bone, if the master's own parent is a weak layer and the
\* loop over the reparent requests has made a reparent bone, and none
\* otherwise
C18_WeakBoneIfOwnWeakAndReparent ==
    bones.generated =>
        /\ Cardinality(WeakBones) =
              IF /\ cache[node_parent[master]].kind = "Weak"
                 /\ \E i \in 1..Len(bones.made) : bones.made[i][1] = "reparent"
              THEN 1 ELSE 0
        /\ bones.weak_parent_bone <=> WeakBones # {}
        /\ \A i \in WeakBones, j \in ControlBones :
              /\ bones.lengths[i][1] * bones.lengths[j][2] * 2
                    = bones.lengths[j][1] * bones.lengths[i][2]

\* a master under a weak layer with a reparent bone for another parent
C18_Witness ==
    /\ bones.generated
    /\ WeakBones # {}
    /\ cache[node_parent[master]].kind = "Weak"
    /\ ~RequestedWeak

----------------------------------------------------------------------------
(* Claims on the mirror siblings and on the order of the stages *)

\* b is a value of the mirror_siblings of a
IsMirrorSibling(a, b) ==
    \E i \in 1..Len(mirror[a].mirror_siblings) : mirror[a].mirror_siblings[i][2] = b

\* merge_done has run on n, to its end or to the failed assertion
MirrorLoopDone(n) == mirror[n].mirror_siblings # <<>>

\* C21: the assertion of find_mirror_siblings holds on every node of the
\* cluster, whatever the names of the merged nodes, and the mirror-sibling
\* relation is symmetric
C21_MirrorAssertionHolds ==
    /\ \A n \in NodeIds :
          MirrorLoopDone(n) => MirrorAssertion(n, mirror[n])
    /\ \A a \in NodeIds, b \in NodeIds :
          MirrorLoopDone(a) /\ MirrorLoopDone(b) =>
              (IsMirrorSibling(a, b) <=> IsMirrorSibling(b, a))

\* C23: in every order of the initialize calls on the components of the
\* cluster, request_reparent runs after the master's initialize has assigned
\* node_parent and use_mix_parent: no initialize ends in the exception of
\* request_reparent
C23_RequestAfterMasterInitialize ==
    ~(stage = "initialize" /\ aborted)

\* the generators whose output_bone parent_bones and rig_bones have read
ReadParents ==
    {bones.parents[i][2][2] :
        i \in {j \in 1..Len(bones.parents) : bones.parents[j][2][1] = "output_bone"}}
    \cup UNION {{bones.constraints[i][3][k][2] :
                    k \in {l \in 1..Len(bones.constraints[i][3]) :
                              bones.constraints[i][3][l][1] = "output_bone"}} :
                i \in 1..Len(bones.constraints)}

\* the requested parents that get a conversion bone of their own
OwnReparentBone ==
    {reparent_requests[i] : i \in 1..Len(reparent_requests)}
    \ (IF mstate.use_mix_parent THEN {} ELSE {node_parent[master]})

\* the generators whose output_bone the master will read: the stripped
\* parents of the siblings, the requested parents with a bone of their own
\* and, with a weak-parent bone, the weak layer of the master
WillRead ==
    {mstate.node_parent_list[i] : i \in 1..Len(mstate.node_parent_list)}
    \cup OwnReparentBone
    \cup (IF mstate.has_weak_parent /\ OwnReparentBone # {}
          THEN {node_parent[master]} ELSE {})

\* enable_component has been called on g (on an Org it does nothing)
EnableCalled(g) == cache[g].kind = "Org" \/ cache[g].enabled

C22_UsedBeforePrepare ==
    /\ stage = "prepare_bones" => \A g \in WillRead : IsUsed(g)
    /\ stage \in {"generate_bones", "parent_bones", "rig_bones",
                  "generate_widgets", "done"} =>
          /\ \A g \in WillRead : EnableCalled(g)
          /\ used_parents = <<>>
    /\ bones.rigged => ReadParents = WillRead
    /\ bones.parented => ReadParents \subseteq WillRead

\* C22: every parent generator whose output_bone the master reads in
\* parent_bones or rig_bones is in used_parents when prepare_bones starts and
\* has had enable_component called when prepare_bones has returned, and no
\* parent is registered as used after prepare_bones
C22_ParentsEnabledBeforeRead ==
    /\ []C22_UsedBeforePrepare
    /\ [][stage \notin {"merge_done", "initialize"} => used_parents' = <<>>]_vars

\* a mix parent over two sibling parents, a weak-parent bone and a reparent
\* bone
C22_Witness ==
    /\ bones.rigged
    /\ mstate.use_mix_parent
    /\ bones.use_weak_parent
    /\ Cardinality(ReadParents) >= 3
    /\ node_parent[master] \in ReadParents

============================================================================
